---- MODULE Spec2Model ----
(***************************************************************************)
(* Graph-RAG retrieval core: the Smart Traversal Engine                    *)
(* (src/traversal_engine.py) and the Query-Time Entity Extractor           *)
(* (src/entity_extractor.py), with the graph store (src/connector.py) as   *)
(* an environment that answers each query with rows or raises.             *)
(*                                                                         *)
(* Python values: a dict is a function whose DOMAIN is its key set (the    *)
(* empty dict is <<>>); a str used as an id or a label is a TLA+ string; a *)
(* str that the extractor tokenises is a sequence of one-character         *)
(* strings; None in a str-typed field is the string NoneVal.               *)
(***************************************************************************)
EXTENDS Integers, Sequences, FiniteSets, TLC

VARIABLES
    _config,            \* SmartTraversalEngine._config
    _intent_patterns,   \* SmartTraversalEngine._intent_patterns
    _general_limit,     \* SmartTraversalEngine._general_limit
    _fuzzy_available,   \* QueryTimeEntityExtractor._fuzzy_available
    stop_words,         \* QueryTimeEntityExtractor.stop_words
    pc,                 \* "idle" | "store" (inside execute_query) | "done"
    op,                 \* the running call: "none" | "traverse" | "resolve" | "keywords"
    args,               \* the running call's arguments
    frame,              \* the running call's locals while it waits for the store
    queries,            \* the store queries the running call has issued, in order
    registry_reads,     \* how often the running call read _intent_patterns
    ret,                \* how the call ended: returned value or raised error
    config_errors,      \* history: some earlier call ended with a configuration error
    graph,              \* the content of the store, where a specification fixes it
    calls               \* the calls of concurrent threads, one record per thread

vars == <<_config, _intent_patterns, _general_limit, _fuzzy_available, stop_words, pc, op, args,
          frame, queries, registry_reads, ret, config_errors, graph, calls>>

----------------------------------------------------------------------------
(* Bounds of the model *)

MaxEntries == 2     \* longest entry-node list passed to traverse
MaxRows == 2        \* longest row list the store returns
MaxShuffled == 3    \* largest answer of the graph store taken in every order

----------------------------------------------------------------------------
(* Python helpers *)

NoneVal == "<None>"
EmptyDict == <<>>

\* dict.get(k, default)
PyGet(d, k, default) == IF k \in DOMAIN d THEN d[k] ELSE default

\* truth value of a str-or-None
Truthy(s) == s # "" /\ s # NoneVal

Min(a, b) == IF a <= b THEN a ELSE b

\* [f(x) for x in seq]
RECURSIVE Ids(_)
Ids(nodes) ==
    IF nodes = <<>> THEN <<>>
    ELSE <<Head(nodes)["id"]>> \o Ids(Tail(nodes))

SeqToSet(s) == {s[i] : i \in 1..Len(s)}

\* how a callee ends
Raise(e) == [tag |-> "raise", error |-> e]
Issue(q, h) == [tag |-> "query", query |-> q, hop_depth |-> h]

----------------------------------------------------------------------------
(* Configuration documents (json.load of config_path).  Two documents:     *)
(* one with general_traversal.node_limit, one without it.  The intent      *)
(* patterns cover every strategy, its optional fields present and absent,  *)
(* entries that lack a field their strategy reads, and a hop bound below   *)
(* zero.                                                                   *)

IntentPatterns ==
    [ side_effects |->
        [strategy |-> "targeted", relationship |-> "CAUSES",
         source_label |-> "Drug", target_label |-> "SideEffect",
         entry_anchor |-> "source"],
      treated_by |->
        [relationship |-> "TREATS", entry_anchor |-> "target"],
      interactions |->
        [strategy |-> "targeted", relationship |-> "INTERACTS_WITH",
         entry_anchor |-> "either"],
      indirect_symptoms |->
        [strategy |-> "chained", entry_label |-> "Drug",
         hops |-> << [relationship |-> "TREATS", target_label |-> "Disease"],
                     [relationship |-> "HAS_SYMPTOM", target_label |-> "Symptom"] >>],
      drug_risk_chain |->
        [strategy |-> "chained",
         hops |-> << [relationship |-> "CAUSES"] >>],
      neighborhood |->
        [strategy |-> "variable_hop", min_hops |-> 1, max_hops |-> 3],
      neighborhood_default |->
        [strategy |-> "variable_hop"],
      neighborhood_backwards |->
        [strategy |-> "variable_hop", min_hops |-> 1, max_hops |-> -1],
      connection |->
        [strategy |-> "shortest_path", max_hops |-> 4],
      connection_default |->
        [strategy |-> "shortest_path"],
      shared_effects |->
        [strategy |-> "shared_neighbor", min_connections |-> 2],
      shared_default |->
        [strategy |-> "shared_neighbor"],
      shared_single |->
        [strategy |-> "shared_neighbor", min_connections |-> 1],
      shared_many |->
        [strategy |-> "shared_neighbor", min_connections |-> 5],
      bad_chain |->
        [strategy |-> "chained", entry_label |-> "Drug"],
      bad_hop |->
        [strategy |-> "chained",
         hops |-> << [relationship |-> "TREATS"], [target_label |-> "Symptom"] >>],
      bad_targeted |->
        [keywords |-> <<"risk">>],
      odd_strategy |->
        [strategy |-> "semantic"],
      empty_pattern |-> EmptyDict ]

ConfigWithLimit ==
    [intent_patterns |-> IntentPatterns, general_traversal |-> [node_limit |-> 2]]

ConfigWithoutLimit ==
    [intent_patterns |-> IntentPatterns]

\* what the constructors find: the configuration document and whether the
\* Levenshtein import succeeds.  The engine and the extractor share no state,
\* so each of the two documents is paired with one outcome of the import.
Deployments ==
    { [config |-> ConfigWithLimit, fuzzy |-> TRUE],
      [config |-> ConfigWithoutLimit, fuzzy |-> FALSE] }

\* the intent names a caller passes: the registry's keys and two others
Intents == DOMAIN IntentPatterns \cup {"general", "unknown_intent"}

----------------------------------------------------------------------------
(* Values the environment supplies *)

NodeIds == {"n1", "n2", "n3"}

\* entry nodes as callers build them (make_node, _row_to_node); two records
\* carry the id n1
EntryNodeUniverse ==
    { [id |-> "n1", label |-> "Drug", name |-> "Aspirin",
       properties |-> [name |-> "Aspirin"]],
      [id |-> "n1", label |-> "Medicine", name |-> "",
       properties |-> EmptyDict],
      [id |-> "n2", label |-> "Drug", name |-> "Ibuprofen",
       properties |-> [name |-> "Ibuprofen"]] }

\* rows as session.run(...).data() returns them for the traversal queries,
\* and rows that lack a key or carry an empty id
RowUniverse ==
    { [source_id |-> "n1", source_label |-> "Drug",
       source_props |-> [name |-> "Aspirin"],
       rel_type |-> "CAUSES", rel_props |-> EmptyDict,
       target_id |-> "n3", target_label |-> "SideEffect",
       target_props |-> [name |-> "Nausea"]],
      [source_id |-> "n3", source_label |-> "SideEffect",
       source_props |-> [name |-> "Nausea"],
       rel_type |-> "TREATED_BY", rel_props |-> [since |-> "1990"],
       target_id |-> "n1", target_label |-> "Drug",
       target_props |-> [name |-> "Aspirin"]],
      [source_id |-> "n2", source_props |-> EmptyDict,
       target_id |-> "n3", target_label |-> ""],
      [rel_type |-> "CAUSES",
       target_id |-> "n2", target_label |-> "Drug",
       target_props |-> [name |-> "Ibuprofen"]],
      [source_id |-> "n1", source_label |-> "Drug",
       source_props |-> [name |-> "Aspirin"],
       rel_type |-> "CAUSES", rel_props |-> EmptyDict,
       target_id |-> "", target_label |-> NoneVal] }

\* the errors the store client raises
StoreErrors == {"ServiceUnavailable", "ClientError"}

SeqsUpTo(S, n) == UNION {[1..k -> S] : k \in 0..n}

----------------------------------------------------------------------------
(* SmartTraversalEngine: the strategies.  A Cypher text is modelled by the *)
(* record of what it asks for: the kind of pattern, the $ids parameter,    *)
(* the labels, relationship types, hop bounds and the LIMIT.               *)

TargetedLimit == 50
ChainedLimit == 100
VariableHopLimit == 60
ShortestPathLimit == 20
DefaultNodeLimit == 30
DefaultMinHops == 1
DefaultMaxHops == 2
DefaultShortestMaxHops == 6
DefaultMinConnections == 2

\* __init__: the node limit of a configuration document
NodeLimitOf(config) ==
    PyGet(PyGet(config, "general_traversal", EmptyDict), "node_limit",
          DefaultNodeLimit)

\* a _targeted that anchors the entry ids on the source whatever
\* entry_anchor says
_targetedOnSource(entry_ids, pattern) ==
    IF "relationship" \notin DOMAIN pattern THEN Raise("KeyError")
    ELSE Issue([kind |-> "targeted", ids |-> entry_ids,
                src_label |-> PyGet(pattern, "source_label", ""),
                rel |-> pattern["relationship"],
                tgt_label |-> PyGet(pattern, "target_label", ""),
                directed |-> TRUE,
                ids_on |-> "source",
                limit |-> TargetedLimit], 1)

_targeted(entry_ids, pattern) ==
    IF "relationship" \notin DOMAIN pattern THEN Raise("KeyError")
    ELSE
        LET src_label == PyGet(pattern, "source_label", "")
            rel_name  == pattern["relationship"]
            tgt_label == PyGet(pattern, "target_label", "")
            anchor    == PyGet(pattern, "entry_anchor", "source")
            where     == IF anchor = "either" THEN "either"
                         ELSE IF anchor = "target" THEN "target"
                         ELSE "source"
        IN Issue([kind |-> "targeted", ids |-> entry_ids,
                  src_label |-> src_label, rel |-> rel_name,
                  tgt_label |-> tgt_label,
                  directed |-> (anchor # "either"),
                  ids_on |-> where,
                  limit |-> TargetedLimit], 1)

\* hops that leave the target labels out of the path pattern
HopTokensUnlabelled(hops) ==
    [i \in 1..Len(hops) |-> [rel |-> hops[i]["relationship"], label |-> ""]]

\* the hops of the path pattern; raises when a hop has no relationship
HopTokens(hops) ==
    [i \in 1..Len(hops) |->
        [rel |-> hops[i]["relationship"],
         label |-> PyGet(hops[i], "target_label", "")]]

\* a _chained that reads its hops with pattern.get("hops", [])
_chainedLenient(entry_ids, pattern) ==
    LET hops == PyGet(pattern, "hops", <<>>)
    IN Issue([kind |-> "chained", ids |-> entry_ids,
              entry_label |-> PyGet(pattern, "entry_label", ""),
              hops |-> [i \in 1..Len(hops) |->
                          [rel |-> PyGet(hops[i], "relationship", ""),
                           label |-> PyGet(hops[i], "target_label", "")]],
              limit |-> ChainedLimit], Len(hops))

_chained(entry_ids, pattern) ==
    IF "hops" \notin DOMAIN pattern THEN Raise("KeyError")
    ELSE
        LET hops        == pattern["hops"]
            entry_label == PyGet(pattern, "entry_label", "")
            n_hops      == Len(hops)
        IN IF \E i \in 1..n_hops : "relationship" \notin DOMAIN hops[i]
           THEN Raise("KeyError")
           ELSE Issue([kind |-> "chained", ids |-> entry_ids,
                       entry_label |-> entry_label,
                       hops |-> HopTokens(hops),
                       limit |-> ChainedLimit], n_hops)

\* a _variable_hop that reports the lower hop bound as its depth
_variable_hopMinDepth(entry_ids, pattern) ==
    LET min_h == PyGet(pattern, "min_hops", DefaultMinHops)
        max_h == PyGet(pattern, "max_hops", DefaultMaxHops)
    IN Issue([kind |-> "variable_hop", ids |-> entry_ids,
              min_hops |-> min_h, max_hops |-> max_h,
              limit |-> VariableHopLimit], min_h)

_variable_hop(entry_ids, pattern) ==
    LET min_h == PyGet(pattern, "min_hops", DefaultMinHops)
        max_h == PyGet(pattern, "max_hops", DefaultMaxHops)
    IN Issue([kind |-> "variable_hop", ids |-> entry_ids,
              min_hops |-> min_h, max_hops |-> max_h,
              limit |-> VariableHopLimit], max_h)

\* a _shortest_path without its fallback
TooFewNever(entry_ids) == FALSE

\* the guard of the fallback in _shortest_path
TooFewForShortestPath(entry_ids) == Len(entry_ids) < 2

\* a _shortest_path that asks for paths of one hop whatever max_hops is
_shortest_pathOneHop(entry_ids, pattern) ==
    LET max_h == PyGet(pattern, "max_hops", DefaultShortestMaxHops)
    IN IF TooFewForShortestPath(entry_ids)
       THEN _variable_hop(entry_ids, [min_hops |-> 1, max_hops |-> max_h])
       ELSE Issue([kind |-> "shortest_path", ids |-> entry_ids,
                   max_hops |-> 1,
                   limit |-> ShortestPathLimit], max_h)

_shortest_path(entry_ids, pattern) ==
    LET max_h == PyGet(pattern, "max_hops", DefaultShortestMaxHops)
    IN IF TooFewForShortestPath(entry_ids)
       THEN _variable_hop(entry_ids, [min_hops |-> 1, max_hops |-> max_h])
       ELSE Issue([kind |-> "shortest_path", ids |-> entry_ids,
                   max_hops |-> max_h,
                   limit |-> ShortestPathLimit], max_h)

\* a _shared_neighbor that passes the configured threshold as it is
MinConnUncapped(entry_ids, pattern) ==
    PyGet(pattern, "min_connections", DefaultMinConnections)

\* the $min_conn parameter
MinConn(entry_ids, pattern) ==
    Min(PyGet(pattern, "min_connections", DefaultMinConnections),
        Len(entry_ids))

_shared_neighbor(entry_ids, pattern) ==
    Issue([kind |-> "shared_neighbor", ids |-> entry_ids,
           min_conn |-> MinConn(entry_ids, pattern)], 1)

_general(entry_ids, pattern, general_limit) ==
    Issue([kind |-> "general", ids |-> entry_ids,
           directed |-> FALSE, rel |-> "",
           limit |-> general_limit], 1)

\* traverse, lines 91-92: the pattern of the intent and the strategy tag
PatternOf(patterns, intent) ==
    IF intent \in DOMAIN patterns THEN patterns[intent] ELSE EmptyDict

\* a traverse that takes the default strategy for an unknown intent too
StrategyOfDefaulted(patterns, intent) ==
    PyGet(PatternOf(patterns, intent), "strategy", "targeted")

StrategyOf(patterns, intent) ==
    LET pattern == PatternOf(patterns, intent)
    IN IF DOMAIN pattern # {}
       THEN PyGet(pattern, "strategy", "targeted")
       ELSE "general"

\* traverse, lines 94-103: dispatch.get(strategy, self._general)
Dispatch(strategy, entry_ids, pattern, general_limit) ==
    CASE strategy = "targeted"        -> _targeted(entry_ids, pattern)
      [] strategy = "chained"         -> _chained(entry_ids, pattern)
      [] strategy = "variable_hop"    -> _variable_hop(entry_ids, pattern)
      [] strategy = "shortest_path"   -> _shortest_path(entry_ids, pattern)
      [] strategy = "shared_neighbor" -> _shared_neighbor(entry_ids, pattern)
      [] OTHER                        -> _general(entry_ids, pattern, general_limit)

----------------------------------------------------------------------------
(* _build_subgraph *)

\* the node built from one side of a row
RowNode(row, side) ==
    LET nid   == PyGet(row, side \o "_id", NoneVal)
        props == PyGet(row, side \o "_props", EmptyDict)
        label == PyGet(row, side \o "_label", NoneVal)
    IN [id |-> nid,
        label |-> IF Truthy(label) THEN label ELSE "Unknown",
        name |-> PyGet(props, "name", ""),
        properties |-> props]

\* an assembler that does not seed the node list with the entry nodes
SeedNodesSkipped(entry_nodes, nodes) == nodes

\* lines 300-303: the entry nodes, the first of each id
RECURSIVE SeedNodes(_, _)
SeedNodes(entry_nodes, nodes) ==
    IF entry_nodes = <<>> THEN nodes
    ELSE LET en == Head(entry_nodes)
             next == IF en["id"] \notin SeqToSet(Ids(nodes))
                     THEN Append(nodes, en) ELSE nodes
         IN IF next = next THEN SeedNodes(Tail(entry_nodes), next) ELSE nodes

\* an assembler that appends a row's node without looking at seen_ids
AddSideUnseen(nodes, row, side) ==
    IF Truthy(PyGet(row, side \o "_id", NoneVal))
    THEN Append(nodes, RowNode(row, side))
    ELSE nodes

\* lines 306-316: one side of one row
AddSide(nodes, row, side) ==
    LET nid == PyGet(row, side \o "_id", NoneVal)
    IN IF Truthy(nid) /\ nid \notin SeqToSet(Ids(nodes))
       THEN Append(nodes, RowNode(row, side))
       ELSE nodes

\* an assembler that makes a relationship of every row
RowRelsUnguarded(row) ==
    << [source_id |-> PyGet(row, "source_id", NoneVal),
        target_id |-> PyGet(row, "target_id", NoneVal),
        type |-> PyGet(row, "rel_type", "RELATED_TO"),
        properties |-> PyGet(row, "rel_props", EmptyDict)] >>

\* lines 318-324: the relationship of one row
RowRels(row) ==
    IF Truthy(PyGet(row, "source_id", NoneVal))
       /\ Truthy(PyGet(row, "target_id", NoneVal))
    THEN << [source_id |-> row["source_id"],
             target_id |-> row["target_id"],
             type |-> PyGet(row, "rel_type", "RELATED_TO"),
             properties |-> PyGet(row, "rel_props", EmptyDict)] >>
    ELSE <<>>

\* an assembler that looks at the target of a row before its source
RECURSIVE AddRowsTargetFirst(_, _)
AddRowsTargetFirst(rows, sg) ==
    IF rows = <<>> THEN sg
    ELSE LET row == Head(rows)
         IN AddRowsTargetFirst(Tail(rows),
                [nodes |-> AddSide(AddSide(sg.nodes, row, "target"), row, "source"),
                 relationships |-> sg.relationships \o RowRels(row)])

\* an assembler that keeps one relationship per (source, type, target)
RECURSIVE AddRowsDistinctEdges(_, _)
AddRowsDistinctEdges(rows, sg) ==
    IF rows = <<>> THEN sg
    ELSE LET row == Head(rows)
             rels == RowRels(row)
         IN AddRowsDistinctEdges(Tail(rows),
                [nodes |-> AddSide(AddSide(sg.nodes, row, "source"), row, "target"),
                 relationships |->
                     IF rels # <<>> /\ rels[1] \in SeqToSet(sg.relationships)
                     THEN sg.relationships
                     ELSE sg.relationships \o rels])

\* lines 305-324: row by row.  The comparison next = next changes nothing;
\* it makes TLC, which evaluates the arguments of an operator when they are
\* used, build the subgraph of a row before it turns to the next row.
RECURSIVE AddRows(_, _)
AddRows(rows, sg) ==
    IF rows = <<>> THEN sg
    ELSE LET row == Head(rows)
             next == [nodes |-> AddSide(AddSide(sg.nodes, row, "source"), row, "target"),
                      relationships |-> sg.relationships \o RowRels(row)]
         IN IF next = next THEN AddRows(Tail(rows), next) ELSE sg

_build_subgraph(rows, entry_nodes) ==
    AddRows(rows, [nodes |-> SeedNodes(entry_nodes, <<>>),
                   relationships |-> <<>>])

\* a traverse that forgets line 107
TaggedWithoutDepth(sg, strategy, hop_depth) ==
    [nodes |-> sg.nodes, relationships |-> sg.relationships,
     strategy |-> strategy]

\* traverse, lines 105-108
Tagged(sg, strategy, hop_depth) ==
    [nodes |-> sg.nodes, relationships |-> sg.relationships,
     strategy |-> strategy, hop_depth |-> hop_depth]

\* a traverse whose guard for the empty entry list never fires
NoEntrySkipped(entry_nodes) == FALSE

\* traverse, line 87
NoEntry(entry_nodes) == entry_nodes = <<>>

EmptySubgraph ==
    [nodes |-> <<>>, relationships |-> <<>>, strategy |-> "none", hop_depth |-> 0]


----------------------------------------------------------------------------
(* QueryTimeEntityExtractor: candidate generation.  A query is a sequence  *)
(* of characters over Alphabet: a stop-word letter, another letter, an     *)
(* upper-case letter, white space, the hyphen and a punctuation mark.      *)

MaxQueryLen == 5    \* longest query of the candidate-generation check

Alphabet == {"a", "b", "A", " ", "-", "?"}

\* the characters the pattern [^a-zA-Z0-9\s\-] leaves alone
Kept == {"a", "b", "c", "A", "B", " ", "-"}
WhiteSpace == {" "}

\* str.lower on one character
LowerChar(c) == CASE c = "A" -> "a" [] c = "B" -> "b" [] OTHER -> c

\* re.sub(r"[^a-zA-Z0-9\s\-]", " ", query)
Clean(query) == [i \in 1..Len(query) |-> IF query[i] \in Kept THEN query[i] ELSE " "]

Lower(s) == [i \in 1..Len(s) |-> LowerChar(s[i])]

\* str.split(): the maximal runs of non-white-space characters
RECURSIVE SplitFrom(_, _, _)
SplitFrom(s, cur, acc) ==
    IF s = <<>> THEN (IF cur = <<>> THEN acc ELSE Append(acc, cur))
    ELSE IF Head(s) \in WhiteSpace
         THEN SplitFrom(Tail(s), <<>>, IF cur = <<>> THEN acc ELSE Append(acc, cur))
         ELSE SplitFrom(Tail(s), Append(cur, Head(s)), acc)

Split(s) == SplitFrom(s, <<>>, <<>>)

\* str.strip() leaves nothing
Blank(query) == \A i \in 1..Len(query) : query[i] \in WhiteSpace

\* the words of _DEFAULT_STOP_WORDS that the model's letters spell
DefaultStopWords == { <<"a">> }

\* self.stop_words, for the extra_stop_words of the constructor
StopWords(extra) == DefaultStopWords \cup {Lower(w) : w \in extra}

Filter(tokens, stop) ==
    LET keep == {i \in 1..Len(tokens) : tokens[i] \notin stop}
        RECURSIVE Pick(_)
        Pick(i) == IF i > Len(tokens) THEN <<>>
                   ELSE (IF i \in keep THEN <<tokens[i]>> ELSE <<>>) \o Pick(i + 1)
    IN Pick(1)

\* " ".join(tokens[i : i + n]) for the 1-based i
RECURSIVE Join(_, _, _)
Join(tokens, i, n) ==
    IF n = 1 THEN tokens[i]
    ELSE tokens[i] \o <<" ">> \o Join(tokens, i + 1, n - 1)

\* lines 193-197: the phrases of size n, appended unless seen
RECURSIVE AddGrams(_, _, _, _)
AddGrams(tokens, n, i, candidates) ==
    IF i + n - 1 > Len(tokens) THEN candidates
    ELSE LET phrase == Join(tokens, i, n)
         IN AddGrams(tokens, n, i + 1,
                IF phrase \in SeqToSet(candidates) THEN candidates
                ELSE Append(candidates, phrase))

\* candidate generation without the fall-back
ContentTokensFiltered(tokens, stop) == Filter(tokens, stop)

\* lines 183-185: the fall-back to all tokens
ContentTokens(tokens, stop) ==
    LET content_tokens == Filter(tokens, stop)
    IN IF content_tokens = <<>> THEN tokens ELSE content_tokens

\* candidate generation with the sizes taken in the order 1, 2, 3
_extract_keywordsShortestFirst(query, stop) ==
    LET tokens == Split(Lower(Clean(query)))
        content_tokens == ContentTokens(tokens, stop)
    IN AddGrams(content_tokens, 3, 1,
         AddGrams(content_tokens, 2, 1,
           AddGrams(content_tokens, 1, 1, <<>>)))

_extract_keywords(query, stop) ==
    LET tokens == Split(Lower(Clean(query)))
        content_tokens == ContentTokens(tokens, stop)
    IN AddGrams(content_tokens, 1, 1,
         AddGrams(content_tokens, 2, 1,
           AddGrams(content_tokens, 3, 1, <<>>)))


----------------------------------------------------------------------------
(* QueryTimeEntityExtractor: the graph lookups *)

ExactLimit == 10
PartialLimit == 10
FuzzyLimit == 200
FuzzyTop == 5
FuzzyMinLen == 3            \* fuzzy only for len(keyword) > 3
fuzzy_threshold == 85       \* 0.85, in hundredths

\* rows of the exact and the partial lookup
LookupRowUniverse ==
    { [id |-> "n1", label |-> "Drug", properties |-> [name |-> "Aspirin"]],
      [id |-> "n2", label |-> "Drug", properties |-> [name |-> "Ibuprofen"]],
      [id |-> "n3", properties |-> EmptyDict] }

\* rows of the fuzzy lookup: candidate_name is toLower of the primary
\* property, absent for a node without it
FuzzyRowUniverse ==
    { [id |-> "n1", label |-> "Drug", properties |-> [name |-> "Aspirin"],
       candidate_name |-> <<"b", "c", "b">>],
      [id |-> "n2", label |-> "Drug", properties |-> [name |-> "Ibuprofen"],
       candidate_name |-> <<"b", "b", "c", "b", "b">>],
      [id |-> "n3", label |-> "Drug", properties |-> [name |-> "Warfarin"],
       candidate_name |-> <<"a", "b", "c", "b">>],
      [id |-> "n3", properties |-> EmptyDict] }

\* the queries of the resolver check
ResolveQueries ==
    { <<>>, <<" ">>, <<" ", " ">>, <<"?">>, <<"a">>, <<"b", " ", "b">>,
      <<"B", "b", "c", "b", "?">>,
      <<"b", "b", " ", "a", "-", "b">> }

_row_to_node(row) ==
    LET props == PyGet(row, "properties", EmptyDict)
    IN [id |-> row["id"],
        label |-> PyGet(row, "label", "Unknown"),
        name |-> PyGet(props, "name", ""),
        properties |-> props]

RowsToNodes(rows) == [i \in 1..Len(rows) |-> _row_to_node(rows[i])]

_exact_match_query(keyword) ==
    [kind |-> "exact", keyword |-> Lower(keyword), limit |-> ExactLimit]

_partial_match_query(keyword) ==
    [kind |-> "partial", keyword |-> Lower(keyword), limit |-> PartialLimit]

Max(a, b) == IF a >= b THEN a ELSE b

_fuzzy_match_query(keyword) ==
    LET kw_len == Len(keyword)
    IN [kind |-> "fuzzy",
        min_len |-> Max(1, kw_len - (kw_len \div 2)),
        max_len |-> kw_len + (kw_len \div 2),
        limit |-> FuzzyLimit]

\* the longest common subsequence of two strings
RECURSIVE LCS(_, _)
LCS(a, b) ==
    IF a = <<>> \/ b = <<>> THEN 0
    ELSE IF Head(a) = Head(b) THEN 1 + LCS(Tail(a), Tail(b))
    ELSE Max(LCS(Tail(a), b), LCS(a, Tail(b)))

\* Levenshtein.ratio(a, b) as the fraction <<numerator, denominator>>
Ratio(a, b) == << 2 * LCS(a, b), Len(a) + Len(b) >>

AtLeast(r, hundredths) == r[1] * 100 >= hundredths * r[2]
Greater(r1, r2) == r1[1] * r2[2] > r2[1] * r1[2]

\* lines 314-322: the rows with a candidate name similar enough
RECURSIVE Scored(_, _)
Scored(kw_lower, rows) ==
    IF rows = <<>> THEN <<>>
    ELSE LET row == Head(rows)
             candidate_name == PyGet(row, "candidate_name", <<>>)
             rest == Scored(kw_lower, Tail(rows))
         IN IF candidate_name = <<>> THEN rest
            ELSE IF AtLeast(Ratio(kw_lower, candidate_name), fuzzy_threshold)
                 THEN << <<Ratio(kw_lower, candidate_name), row>> >> \o rest
                 ELSE rest

\* list.sort(key=ratio, reverse=True): stable, best first
RECURSIVE InsertScored(_, _)
InsertScored(x, sorted) ==
    IF sorted = <<>> THEN <<x>>
    ELSE IF Greater(x[1], Head(sorted)[1]) THEN <<x>> \o sorted
    ELSE <<Head(sorted)>> \o InsertScored(x, Tail(sorted))

RECURSIVE SortScored(_)
SortScored(scored) ==
    IF scored = <<>> THEN <<>>
    ELSE InsertScored(scored[Len(scored)], SortScored(SubSeq(scored, 1, Len(scored) - 1)))

FuzzyNodes(keyword, rows) ==
    LET sorted == SortScored(Scored(Lower(keyword), rows))
        top == SubSeq(sorted, 1, Min(FuzzyTop, Len(sorted)))
    IN [i \in 1..Len(top) |-> _row_to_node(top[i][2])]

\* a resolver that tries the fuzzy stage for every candidate
FuzzyAppliesAlways(fuzzy_available, keyword) == TRUE

\* _find_in_graph, line 224
FuzzyApplies(fuzzy_available, keyword) ==
    fuzzy_available /\ Len(keyword) > FuzzyMinLen

\* a resolver that appends every node a lookup returns
AccumulateAll(nodes, acc) ==
    [seen_ids |-> acc.seen_ids \cup {nodes[i]["id"] : i \in 1..Len(nodes)},
     entry_nodes |-> acc.entry_nodes \o nodes]

\* extract_entry_nodes, lines 149-153
RECURSIVE Accumulate(_, _)
Accumulate(nodes, acc) ==
    IF nodes = <<>> THEN acc
    ELSE LET node == Head(nodes)
         IN Accumulate(Tail(nodes),
                IF node["id"] \notin acc.seen_ids
                THEN [seen_ids |-> acc.seen_ids \cup {node["id"]},
                      entry_nodes |-> Append(acc.entry_nodes, node)]
                ELSE acc)


----------------------------------------------------------------------------
(* The calls.  A call runs from "idle" to its first store query ("store"), *)
(* continues at each answer of the store, and ends in "done" with ret.     *)

Returned(v) == [status |-> "returned", value |-> v]
Raised(e) == [status |-> "raised", error |-> e]
NoRet == [status |-> "none"]

\* a logged query: what was asked, for which candidate (the resolver), its
\* outcome ("pending", "rows" or the error raised) and how many rows came
Pending(q, keyword) ==
    [query |-> q, for |-> keyword, outcome |-> "pending", count |-> 0]

\* the last query of the log, answered
Answered(log, outcome) ==
    [log EXCEPT ![Len(log)] = [@ EXCEPT !.outcome = outcome]]

\* the last query of the log, answered with rows
AnsweredRows(log, rows) ==
    [log EXCEPT ![Len(log)] = [@ EXCEPT !.outcome = "rows", !.count = Len(rows)]]

\* what no step of a call changes: the fields of the two objects set at
\* construction, the content of the store, the calls of other threads
EngineUnchanged == UNCHANGED <<_config, _intent_patterns, _general_limit, _fuzzy_available,
                               stop_words, graph, calls>>

\* SmartTraversalEngine.traverse up to the store query of the strategy
TraverseCall(entry_nodes, intent) ==
    /\ pc = "idle"
    /\ op' = "traverse"
    /\ args' = [entry_nodes |-> entry_nodes, intent |-> intent]
    /\ EngineUnchanged
    /\ IF NoEntry(entry_nodes)
       THEN /\ ret' = Returned(EmptySubgraph)
            /\ pc' = "done"
            /\ UNCHANGED <<frame, queries, registry_reads, config_errors>>
       ELSE LET entry_ids == Ids(entry_nodes)
                pattern   == PatternOf(_intent_patterns, intent)
                strategy  == StrategyOf(_intent_patterns, intent)
                r == Dispatch(strategy, entry_ids, pattern, _general_limit)
            IN /\ registry_reads' = registry_reads + 1
               /\ IF r.tag = "raise"
                  THEN /\ ret' = Raised(r.error)
                       /\ pc' = "done"
                       /\ config_errors' = TRUE
                       /\ UNCHANGED <<frame, queries>>
                  ELSE /\ queries' = Append(queries, Pending(r.query, ""))
                       /\ frame' = [strategy |-> strategy, hop_depth |-> r.hop_depth]
                       /\ pc' = "store"
                       /\ UNCHANGED <<ret, config_errors>>

\* session.run accepts the query text: the bounds of a variable-length
\* pattern [*min..max] are unsigned integer literals in Cypher, the store
\* answers anything else with a syntax error
Parses(q) ==
    /\ "min_hops" \in DOMAIN q => q.min_hops \in Nat
    /\ "max_hops" \in DOMAIN q => q.max_hops \in Nat

\* execute_query returns rows to the strategy; traverse assembles and returns
TraverseRows(rows) ==
    /\ pc = "store"
    /\ op = "traverse"
    /\ Parses(queries[Len(queries)].query)
    /\ queries' = AnsweredRows(queries, rows)
    /\ frame' = [strategy |-> frame.strategy, hop_depth |-> frame.hop_depth,
                 rows |-> rows]
    /\ ret' = Returned(Tagged(_build_subgraph(rows, args.entry_nodes),
                              frame.strategy, frame.hop_depth))
    /\ pc' = "done"
    /\ EngineUnchanged
    /\ UNCHANGED <<op, args, registry_reads, config_errors>>

\* the first lookup of keyword i, or the return after the last keyword
NextKeyword(fr, i, log) ==
    IF i > Len(fr.keywords)
    THEN /\ ret' = Returned(fr.entry_nodes)
         /\ pc' = "done"
         /\ frame' = fr
         /\ queries' = log
    ELSE /\ frame' = [fr EXCEPT !.i = i, !.stage = "exact"]
         /\ queries' = Append(log,
                Pending(_exact_match_query(fr.keywords[i]), fr.keywords[i]))
         /\ pc' = "store"
         /\ ret' = NoRet

\* a resolver that rejects a blank query instead of answering it
BlankOutcomeRaises == Raised("ValueError")

\* lines 138-139: what a blank query gets
BlankOutcome == Returned(<<>>)

\* a resolver whose seen_ids outlives the call that filled it
SeenIdsLeftOver == IF frame = <<>> THEN {} ELSE frame.seen_ids

\* line 144: seen_ids is a fresh local of each call
NewSeenIds == {}

\* extract_entry_nodes up to its first lookup: fresh locals, no query yet
Resolve(query) ==
    /\ op' = "resolve"
    /\ EngineUnchanged
    /\ UNCHANGED <<registry_reads, config_errors>>
    /\ IF query = <<>> \/ Blank(query)
       THEN /\ ret' = BlankOutcome
            /\ pc' = "done"
            /\ frame' = <<>>
            /\ queries' = <<>>
       ELSE NextKeyword([keywords |-> _extract_keywords(query, stop_words),
                         i |-> 0, stage |-> "exact",
                         rows |-> <<>>, nodes |-> <<>>,
                         seen_ids |-> NewSeenIds, entry_nodes |-> <<>>], 1, <<>>)

\* QueryTimeEntityExtractor.extract_entry_nodes is called
ResolveCall(query) ==
    /\ pc = "idle"
    /\ args' = [query |-> query]
    /\ Resolve(query)

\* the caller keeps the list it got and calls again with the same query
ResolveAgain ==
    /\ pc = "done"
    /\ op = "resolve"
    /\ ret.status = "returned"
    /\ "first" \notin DOMAIN args
    /\ args' = [query |-> args.query, first |-> ret.value]
    /\ Resolve(args.query)

\* _find_in_graph returns nodes (made of the rows of its last lookup) for
\* the keyword: lines 149-153, then the next keyword
Found(rows, nodes, log) ==
    LET acc == Accumulate(nodes, [seen_ids |-> frame.seen_ids,
                                  entry_nodes |-> frame.entry_nodes])
        fr == [frame EXCEPT !.rows = rows, !.nodes = nodes,
                            !.seen_ids = acc.seen_ids,
                            !.entry_nodes = acc.entry_nodes]
    IN NextKeyword(fr, fr.i + 1, log)

\* _find_in_graph goes on to the next stage of the same keyword
NextStage(stage, rows, q, log) ==
    /\ frame' = [frame EXCEPT !.stage = stage, !.rows = rows, !.nodes = <<>>]
    /\ queries' = Append(log, Pending(q, frame.keywords[frame.i]))
    /\ pc' = "store"
    /\ ret' = ret

\* execute_query returns rows to _exact_match
ExactRows(rows) ==
    /\ pc = "store" /\ op = "resolve" /\ frame.stage = "exact"
    /\ EngineUnchanged
    /\ UNCHANGED <<op, args, registry_reads, config_errors>>
    /\ LET nodes == RowsToNodes(rows)
           log == AnsweredRows(queries, rows)
           keyword == frame.keywords[frame.i]
       IN IF nodes # <<>> THEN Found(rows, nodes, log)
          ELSE NextStage("partial", rows, _partial_match_query(keyword), log)

\* execute_query returns rows to _partial_match
PartialRows(rows) ==
    /\ pc = "store" /\ op = "resolve" /\ frame.stage = "partial"
    /\ EngineUnchanged
    /\ UNCHANGED <<op, args, registry_reads, config_errors>>
    /\ LET nodes == RowsToNodes(rows)
           log == AnsweredRows(queries, rows)
           keyword == frame.keywords[frame.i]
       IN IF nodes # <<>> THEN Found(rows, nodes, log)
          ELSE IF FuzzyApplies(_fuzzy_available, keyword)
               THEN NextStage("fuzzy", rows, _fuzzy_match_query(keyword), log)
               ELSE Found(rows, <<>>, log)

\* execute_query returns rows to _fuzzy_match
FuzzyRows(rows) ==
    /\ pc = "store" /\ op = "resolve" /\ frame.stage = "fuzzy"
    /\ EngineUnchanged
    /\ UNCHANGED <<op, args, registry_reads, config_errors>>
    /\ Found(rows, FuzzyNodes(frame.keywords[frame.i], rows),
             AnsweredRows(queries, rows))

\* a resolver that catches the error and returns what it has so far
OnStoreErrorCaught(e, fr) ==
    IF "entry_nodes" \in DOMAIN fr THEN Returned(fr.entry_nodes) ELSE Raised(e)

\* how a call ends when execute_query raises e: nothing catches it
OnStoreError(e, fr) == Raised(e)

\* a connector that runs a failed query a second time before it gives up
StoreRaisesRetried(e) ==
    /\ pc = "store"
    /\ EngineUnchanged
    /\ UNCHANGED <<op, args, frame, registry_reads, config_errors>>
    /\ IF \A i \in 1..Len(queries) - 1 : queries[i].outcome \in {"pending", "rows"}
       THEN /\ queries' = Append(Answered(queries, e),
                                 [queries[Len(queries)] EXCEPT !.outcome = "pending"])
            /\ pc' = "store"
            /\ ret' = ret
       ELSE /\ queries' = Answered(queries, e)
            /\ ret' = OnStoreError(e, frame)
            /\ pc' = "done"

\* execute_query raises
StoreRaises(e) ==
    /\ pc = "store"
    /\ queries' = Answered(queries, e)
    /\ ret' = OnStoreError(e, frame)
    /\ pc' = "done"
    /\ EngineUnchanged
    /\ UNCHANGED <<op, args, frame, registry_reads, config_errors>>

\* the caller takes the outcome; the next call starts afresh
Finish ==
    /\ pc = "done"
    /\ pc' = "idle"
    /\ op' = "none"
    /\ args' = <<>>
    /\ frame' = <<>>
    /\ queries' = <<>>
    /\ registry_reads' = 0
    /\ ret' = NoRet
    /\ EngineUnchanged
    /\ UNCHANGED config_errors

\* the objects after construction, no call running
Constructed(deployments, extras) ==
    /\ \E d \in deployments :
          /\ _config = d.config
          /\ _intent_patterns = d.config["intent_patterns"]
          /\ _general_limit = NodeLimitOf(d.config)
          /\ _fuzzy_available = d.fuzzy
    /\ \E extra \in extras : stop_words = StopWords(extra)
    /\ pc = "idle"
    /\ op = "none"
    /\ frame = <<>>
    /\ queries = <<>>
    /\ registry_reads = 0
    /\ ret = NoRet
    /\ config_errors = FALSE

\* a store whose content the specification leaves open
NoGraph == [nodes |-> <<>>, edges |-> <<>>]

Init ==
    /\ Constructed(Deployments, {{}})
    /\ args = <<>>
    /\ graph = NoGraph
    /\ calls = <<>>

Next ==
    \/ \E entry_nodes \in SeqsUpTo(EntryNodeUniverse, MaxEntries), intent \in Intents :
          TraverseCall(entry_nodes, intent)
    \/ \E rows \in SeqsUpTo(RowUniverse, MaxRows) : TraverseRows(rows)
    \/ \E query \in ResolveQueries : ResolveCall(query)
    \/ \E rows \in SeqsUpTo(LookupRowUniverse, MaxRows) : ExactRows(rows)
    \/ \E rows \in SeqsUpTo(LookupRowUniverse, MaxRows) : PartialRows(rows)
    \/ \E rows \in SeqsUpTo(FuzzyRowUniverse, MaxRows) : FuzzyRows(rows)
    \/ \E e \in StoreErrors : StoreRaises(e)
    \/ Finish

Spec == Init /\ [][Next]_vars


----------------------------------------------------------------------------
(* The resolver over a store of fixed content: each lookup is answered by  *)
(* evaluating it on graph, the nodes in storage order, so the same lookup  *)
(* gets the same rows every time.  The caller makes each call twice.       *)

\* the name property of a stored node, NoneVal when it has none
NameOf(node) == PyGet(node.properties, "name", NoneVal)

\* s CONTAINS sub
Contains(s, sub) ==
    \E i \in 0..(Len(s) - Len(sub)) : SubSeq(s, i + 1, i + Len(sub)) = sub

\* the WHERE clause of a lookup, on one node; a node without the property
\* gives null, which is not true
LookupMatches(q, node) ==
    /\ NameOf(node) # NoneVal
    /\ CASE q.kind = "exact" -> Lower(NameOf(node)) = q.keyword
         [] q.kind = "partial" -> Contains(Lower(NameOf(node)), q.keyword)
         [] q.kind = "fuzzy" -> /\ Len(NameOf(node)) >= q.min_len
                                /\ Len(NameOf(node)) <= q.max_len

\* the RETURN clause of a lookup
LookupRow(q, node) ==
    IF q.kind = "fuzzy"
    THEN [id |-> node.id, label |-> node.label, properties |-> node.properties,
          candidate_name |-> Lower(NameOf(node))]
    ELSE [id |-> node.id, label |-> node.label, properties |-> node.properties]

RECURSIVE LookupRows(_, _)
LookupRows(q, nodes) ==
    IF nodes = <<>> THEN <<>>
    ELSE (IF LookupMatches(q, Head(nodes)) THEN <<LookupRow(q, Head(nodes))>> ELSE <<>>)
         \o LookupRows(q, Tail(nodes))

\* MATCH ... WHERE ... RETURN ... LIMIT on the stored nodes
StoreLookup(g, q) ==
    LET rows == LookupRows(q, g.nodes)
    IN SubSeq(rows, 1, Min(Len(rows), q.limit))

\* three store contents: names that match exactly, as a substring, only
\* approximately (one and two of them), and a node without a name
LookupGraphs ==
    { [nodes |-> << [id |-> "n1", label |-> "Drug",
                     properties |-> [name |-> <<"B", "c", "b">>]],
                    [id |-> "n2", label |-> "Drug",
                     properties |-> [name |-> <<"b", "b", "c", "b", "b">>]],
                    [id |-> "n3", label |-> "Disease", properties |-> EmptyDict],
                    [id |-> "n4", label |-> "Symptom",
                     properties |-> [name |-> <<"B">>]] >>,
       edges |-> <<>>],
      [nodes |-> << [id |-> "n1", label |-> "Drug",
                     properties |-> [name |-> <<"b", "b", "c", "a", "b">>]],
                    [id |-> "n2", label |-> "Drug",
                     properties |-> [name |-> <<"B", "b">>]],
                    [id |-> "n3", label |-> "Disease",
                     properties |-> [name |-> <<"a", "-", "b">>]] >>,
       edges |-> <<>>],
      [nodes |-> << [id |-> "n3", label |-> "Drug",
                     properties |-> [name |-> <<"b", "c", "b">>]],
                    [id |-> "n1", label |-> "Drug",
                     properties |-> [name |-> <<"B", "b", "c", "a", "b">>]] >>,
       edges |-> <<>>] }

LastQuery == queries[Len(queries)].query

StableExact == ExactRows(StoreLookup(graph, LastQuery))
StablePartial == PartialRows(StoreLookup(graph, LastQuery))
StableFuzzy == FuzzyRows(StoreLookup(graph, LastQuery))

StableInit ==
    /\ Constructed(Deployments, {{}})
    /\ args = <<>>
    /\ graph \in LookupGraphs
    /\ calls = <<>>

StableNext ==
    \/ \E query \in ResolveQueries : ResolveCall(query)
    \/ StableExact
    \/ StablePartial
    \/ StableFuzzy
    \/ ResolveAgain
    \/ Finish

StableSpec == StableInit /\ [][StableNext]_vars

----------------------------------------------------------------------------

(* Concurrent traverse calls on one engine.  Each thread runs traverse as  *)
(* above, with its own arguments and locals in calls[t]; the engine's      *)
(* fields are shared; the store answers each query on its own.  A thread   *)
(* takes a step whenever it is at the call, inside execute_query, or at    *)
(* the return.                                                             *)

NumThreads == 2     \* threads that call traverse on the same engine
Threads == 1..NumThreads

ConcIntents == {"side_effects", "connection", "bad_chain", "unknown_intent"}

ConcEntryLists ==
    {<<>>} \cup {<<en>> : en \in {x \in EntryNodeUniverse : x.label = "Drug"}}

ConcRowLists ==
    {<<>>} \cup {<<row>> : row \in {x \in RowUniverse :
                                      PyGet(x, "rel_type", "") = "TREATED_BY"}}

ConcErrors == {"ServiceUnavailable"}

NoCall == [pc |-> "idle", args |-> <<>>, frame |-> <<>>, queries |-> <<>>,
           ret |-> NoRet]

\* the call of thread t alone changes, as given
OnlyCall(t, call) ==
    /\ calls' = [calls EXCEPT ![t] = call]
    /\ UNCHANGED <<_config, _intent_patterns, _general_limit, _fuzzy_available,
                   stop_words, graph, pc, op, args, frame, queries,
                   registry_reads, ret, config_errors>>

\* some other thread is inside execute_query
OthersInStore(t) == \E u \in Threads \ {t} : calls[u].pc = "store"

\* locals kept in attributes of the engine, which the call of another
\* thread that is inside execute_query has overwritten
FrameOfOther(t) ==
    LET others == {u \in Threads \ {t} : calls[u].pc = "store"}
    IN IF others = {} THEN calls[t].frame
       ELSE calls[CHOOSE u \in others : TRUE].frame

\* strategy and hop_depth are locals of the call
FrameOf(t) == calls[t].frame

\* traverse in thread t, up to the store query of the strategy
ConcTraverseCall(t, entry_nodes, intent) ==
    /\ calls[t].pc = "idle"
    /\ LET call == [NoCall EXCEPT
                       !.args = [entry_nodes |-> entry_nodes, intent |-> intent]]
           r == Dispatch(StrategyOf(_intent_patterns, intent), Ids(entry_nodes),
                         PatternOf(_intent_patterns, intent), _general_limit)
       IN OnlyCall(t,
            IF NoEntry(entry_nodes)
            THEN [call EXCEPT !.pc = "done", !.ret = Returned(EmptySubgraph)]
            ELSE IF r.tag = "raise"
            THEN [call EXCEPT !.pc = "done", !.ret = Raised(r.error)]
            ELSE [call EXCEPT
                     !.pc = "store",
                     !.queries = <<Pending(r.query, "")>>,
                     !.frame = [strategy |-> StrategyOf(_intent_patterns, intent),
                                hop_depth |-> r.hop_depth]])

\* execute_query returns rows to thread t; its traverse assembles and returns
ConcTraverseRows(t, rows) ==
    /\ calls[t].pc = "store"
    /\ Parses(calls[t].queries[1].query)
    /\ OnlyCall(t,
         [calls[t] EXCEPT
             !.pc = "done",
             !.queries = AnsweredRows(@, rows),
             !.frame = [strategy |-> FrameOf(t).strategy,
                        hop_depth |-> FrameOf(t).hop_depth,
                        rows |-> rows,
                        overlapped |-> OthersInStore(t)],
             !.ret = Returned(Tagged(_build_subgraph(rows, calls[t].args.entry_nodes),
                                     FrameOf(t).strategy, FrameOf(t).hop_depth))])

\* execute_query raises in thread t
ConcStoreRaises(t, e) ==
    /\ calls[t].pc = "store"
    /\ OnlyCall(t, [calls[t] EXCEPT !.pc = "done",
                                    !.queries = Answered(@, e),
                                    !.ret = OnStoreError(e, calls[t].frame)])

\* the caller in thread t takes the outcome
ConcFinish(t) ==
    /\ calls[t].pc = "done"
    /\ OnlyCall(t, NoCall)

ConcInit ==
    /\ Constructed(Deployments, {{}})
    /\ args = <<>>
    /\ graph = NoGraph
    /\ calls = [t \in Threads |-> NoCall]

ConcNext ==
    \E t \in Threads :
        \/ \E entry_nodes \in ConcEntryLists, intent \in ConcIntents :
              ConcTraverseCall(t, entry_nodes, intent)
        \/ \E rows \in ConcRowLists : ConcTraverseRows(t, rows)
        \/ \E e \in ConcErrors : ConcStoreRaises(t, e)
        \/ ConcFinish(t)

ConcSpec == ConcInit /\ [][ConcNext]_vars

----------------------------------------------------------------------------

(* traverse over a store of fixed content: the store answers a query by    *)
(* evaluating its pattern on graph.  A stored node has an id, its first    *)
(* label and its properties; a stored relationship has an id, a source, a  *)
(* type, a target and properties.  RETURN DISTINCT makes the rows a set;   *)
(* without ORDER BY the store delivers them in any order, and LIMIT keeps  *)
(* any so many of them.                                                    *)

NodeById(g, id) ==
    LET i == CHOOSE j \in 1..Len(g.nodes) : g.nodes[j].id = id
    IN g.nodes[i]

\* the ways the pattern (src)-[r]->(tgt), or (src)-[r]-(tgt), binds
EdgeBindings(g, directed) ==
    LET along == {[src |-> NodeById(g, e.source), r |-> e,
                   tgt |-> NodeById(g, e.target)] : e \in SeqToSet(g.edges)}
        against == {[src |-> NodeById(g, e.target), r |-> e,
                     tgt |-> NodeById(g, e.source)] : e \in SeqToSet(g.edges)}
    IN IF directed THEN along ELSE along \cup against

\* the labels and the type of the MATCH clause and the WHERE clause of
\* _targeted
EdgeMatches(q, b) ==
    /\ b.r.type = q.rel
    /\ q.src_label = "" \/ b.src.label = q.src_label
    /\ q.tgt_label = "" \/ b.tgt.label = q.tgt_label
    /\ LET ids == SeqToSet(q.ids)
       IN CASE q.ids_on = "either" -> b.src.id \in ids \/ b.tgt.id \in ids
            [] q.ids_on = "target" -> b.tgt.id \in ids
            [] OTHER -> b.src.id \in ids

\* _EDGE_RETURN
EdgeRow(b) ==
    [source_id |-> b.src.id, source_label |-> b.src.label,
     source_props |-> b.src.properties,
     rel_type |-> b.r.type, rel_props |-> b.r.properties,
     target_id |-> b.tgt.id, target_label |-> b.tgt.label,
     target_props |-> b.tgt.properties]

\* the distinct rows of a targeted query
EdgeRows(g, q) ==
    {EdgeRow(b) : b \in {x \in EdgeBindings(g, q.directed) : EdgeMatches(q, x)}}

\* the orders in which the store may deliver the rows of a set
RECURSIVE Orderings(_)
Orderings(S) ==
    IF S = {} THEN {<<>>}
    ELSE UNION {{<<x>> \o s : s \in Orderings(S \ {x})} : x \in S}

\* the rows of the general query: every relationship at an entry node,
\* the entry node bound to src
GeneralRows(g, q) ==
    {EdgeRow(b) : b \in {x \in EdgeBindings(g, FALSE) : x.src.id \in SeqToSet(q.ids)}}

\* the walks of n relationships, along the stored direction or in either
\* direction, in which no relationship occurs twice
RECURSIVE Walks(_, _, _)
Walks(g, n, directed) ==
    IF n = 1 THEN {<<b>> : b \in EdgeBindings(g, directed)}
    ELSE {p[1] \o <<p[2]>> :
            p \in {x \in Walks(g, n - 1, directed) \X EdgeBindings(g, directed) :
                     /\ x[2].src.id = x[1][n - 1].tgt.id
                     /\ \A i \in 1..(n - 1) : x[1][i].r.id # x[2].r.id}}

\* the walks of lo to hi relationships
WalksBetween(g, lo, hi, directed) ==
    UNION {Walks(g, n, directed) : n \in Max(lo, 1)..Min(hi, Len(g.edges))}

\* MATCH path = (n0:entry_label)-[:R1]->(n1:L1)-...  WHERE elementId(n0) IN $ids
ChainedPaths(g, q) ==
    {w \in WalksBetween(g, Len(q.hops), Len(q.hops), TRUE) :
        /\ w[1].src.id \in SeqToSet(q.ids)
        /\ q.entry_label = "" \/ w[1].src.label = q.entry_label
        /\ \A i \in 1..Len(q.hops) :
              /\ w[i].r.type = q.hops[i].rel
              /\ q.hops[i].label = "" \/ w[i].tgt.label = q.hops[i].label}

\* MATCH path = (source)-[*min..max]-(target)
\* WHERE elementId(source) IN $ids AND source <> target
VariableHopPaths(g, q) ==
    {w \in WalksBetween(g, q.min_hops, q.max_hops, FALSE) :
        /\ w[1].src.id \in SeqToSet(q.ids)
        /\ w[1].src.id # w[Len(w)].tgt.id}

\* the order of the element ids of the store: the order of creation
IdBefore(g, a, b) ==
    \E i, j \in 1..Len(g.nodes) : i < j /\ g.nodes[i].id = a /\ g.nodes[j].id = b

\* MATCH (a), (b) WHERE elementId(a) IN $ids AND elementId(b) IN $ids
\*   AND elementId(a) < elementId(b)
EntryPairs(g, q) ==
    {p \in SeqToSet(q.ids) \X SeqToSet(q.ids) : IdBefore(g, p[1], p[2])}

\* the shortest of the walks of at most max_hops relationships from a to b
ShortestWalks(g, q, a, b) ==
    LET joining == {w \in WalksBetween(g, 1, q.max_hops, FALSE) :
                       w[1].src.id = a /\ w[Len(w)].tgt.id = b}
    IN {w \in joining : \A v \in joining : Len(w) <= Len(v)}

\* shortestPath((a)-[*..max]-(b)): for each pair that is connected one of
\* its shortest paths, the store's choice where a pair has several
ShortestPathChoices(g, q) ==
    LET Shortest(p) == ShortestWalks(g, q, p[1], p[2])
        pairs == EntryPairs(g, q)
        single == {p \in pairs : Cardinality(Shortest(p)) = 1}
        several == {p \in pairs : Cardinality(Shortest(p)) > 1}
        fixed == UNION {Shortest(p) : p \in single}
        open == UNION {Shortest(p) : p \in several}
    IN {fixed \cup {f[p] : p \in several} :
          f \in {h \in [several -> open] : \A p \in several : h[p] \in Shortest(p)}}

\* MATCH (entry)-[r]-(neighbor) WHERE elementId(entry) IN $ids
\* WITH neighbor, collect(DISTINCT elementId(entry)) AS connected_entries
ConnectedEntries(g, q, neighbor) ==
    {b.src.id : b \in {x \in EdgeBindings(g, FALSE) :
                         x.src.id \in SeqToSet(q.ids) /\ x.tgt.id = neighbor}}

\* WHERE size(connected_entries) >= $min_conn
SharedIds(g, q) ==
    {n \in {g.nodes[i].id : i \in 1..Len(g.nodes)} :
        /\ ConnectedEntries(g, q, n) # {}
        /\ Cardinality(ConnectedEntries(g, q, n)) >= q.min_conn}

\* MATCH (src)-[r2]-(tgt)
\* WHERE elementId(src) IN $ids AND elementId(tgt) IN shared_ids
SharedRows(g, q) ==
    {EdgeRow(b) : b \in {x \in EdgeBindings(g, FALSE) :
                           /\ x.src.id \in SeqToSet(q.ids)
                           /\ x.tgt.id \in SharedIds(g, q)}}

\* _PATH_UNWIND: one row for each relationship of each path, from the
\* node the path leaves to the node it reaches
UnwoundRows(paths) ==
    UNION {{EdgeRow(w[i]) : i \in 1..Len(w)} : w \in paths}

\* the sets that are left when d elements are taken away
RECURSIVE Without(_, _)
Without(S, d) ==
    IF d = 0 THEN {S}
    ELSE UNION {Without(S \ {x}, d - 1) : x \in S}

\* LIMIT n: any n of the set, all of it when there are no more
Limited(S, n) == Without(S, Cardinality(S) - Min(n, Cardinality(S)))

\* the sets of rows a query may be answered with
RowSets(g, q) ==
    CASE q.kind = "targeted" -> Limited(EdgeRows(g, q), q.limit)
      [] q.kind = "general" -> Limited(GeneralRows(g, q), q.limit)
      [] q.kind = "chained" ->
            {UnwoundRows(P) : P \in Limited(ChainedPaths(g, q), q.limit)}
      [] q.kind = "variable_hop" ->
            {UnwoundRows(P) : P \in Limited(VariableHopPaths(g, q), q.limit)}
      [] q.kind = "shortest_path" ->
            UNION {{UnwoundRows(P) : P \in Limited(C, q.limit)} :
                     C \in ShortestPathChoices(g, q)}
      [] q.kind = "shared_neighbor" -> {SharedRows(g, q)}

\* one order of a set
RECURSIVE SomeOrdering(_)
SomeOrdering(S) ==
    IF S = {} THEN <<>>
    ELSE LET x == CHOOSE y \in S : TRUE
         IN <<x>> \o SomeOrdering(S \ {x})

\* the answers of the store: the rows of one of these sets, in every
\* order when they are at most MaxShuffled, in one order when they are more
StoreAnswers(g, q) ==
    UNION {IF Cardinality(T) <= MaxShuffled THEN Orderings(T) ELSE {SomeOrdering(T)} :
             T \in RowSets(g, q)}

\* the entry node the resolver makes of a stored node
EntryOf(node) ==
    [id |-> node.id, label |-> node.label,
     name |-> PyGet(node.properties, "name", ""),
     properties |-> node.properties]

\* a drug with two side effects
ScenarioA ==
    [nodes |-> << [id |-> "n1", label |-> "Drug", properties |-> [name |-> "Aspirin"]],
                  [id |-> "n2", label |-> "SideEffect", properties |-> [name |-> "Nausea"]],
                  [id |-> "n3", label |-> "SideEffect",
                   properties |-> [name |-> "StomachBleeding"]] >>,
     edges |-> << [id |-> "r1", source |-> "n1", type |-> "CAUSES", target |-> "n2",
                   properties |-> EmptyDict],
                  [id |-> "r2", source |-> "n1", type |-> "CAUSES", target |-> "n3",
                   properties |-> EmptyDict] >>]

\* two drugs that treat one disease and interact, a side effect caused by
\* a drug and by the disease
MixedGraph ==
    [nodes |-> << [id |-> "n1", label |-> "Drug", properties |-> [name |-> "Aspirin"]],
                  [id |-> "n2", label |-> "Drug", properties |-> [name |-> "Ibuprofen"]],
                  [id |-> "n3", label |-> "Disease", properties |-> [name |-> "Headache"]],
                  [id |-> "n4", label |-> "SideEffect", properties |-> EmptyDict] >>,
     edges |-> << [id |-> "r1", source |-> "n1", type |-> "TREATS", target |-> "n3",
                   properties |-> EmptyDict],
                  [id |-> "r2", source |-> "n2", type |-> "TREATS", target |-> "n3",
                   properties |-> [line |-> "first"]],
                  [id |-> "r3", source |-> "n1", type |-> "INTERACTS_WITH", target |-> "n2",
                   properties |-> EmptyDict],
                  [id |-> "r4", source |-> "n1", type |-> "CAUSES", target |-> "n4",
                   properties |-> EmptyDict],
                  [id |-> "r5", source |-> "n3", type |-> "CAUSES", target |-> "n4",
                   properties |-> EmptyDict] >>]

\* a drug that treats a disease with a symptom, and beside that path a
\* disease without a symptom, a HAS_SYMPTOM relationship that ends at a
\* disease, and a relationship of another type
ScenarioB ==
    [nodes |-> << [id |-> "n1", label |-> "Drug", properties |-> [name |-> "Aspirin"]],
                  [id |-> "n2", label |-> "Disease", properties |-> [name |-> "Headache"]],
                  [id |-> "n3", label |-> "Symptom", properties |-> [name |-> "SeverePain"]],
                  [id |-> "n4", label |-> "Disease", properties |-> [name |-> "Fever"]] >>,
     edges |-> << [id |-> "r1", source |-> "n1", type |-> "TREATS", target |-> "n2",
                   properties |-> EmptyDict],
                  [id |-> "r2", source |-> "n2", type |-> "HAS_SYMPTOM", target |-> "n3",
                   properties |-> EmptyDict],
                  [id |-> "r3", source |-> "n1", type |-> "TREATS", target |-> "n4",
                   properties |-> EmptyDict],
                  [id |-> "r4", source |-> "n4", type |-> "HAS_SYMPTOM", target |-> "n2",
                   properties |-> EmptyDict],
                  [id |-> "r5", source |-> "n3", type |-> "CAUSES", target |-> "n4",
                   properties |-> EmptyDict] >>]

\* a drug, the side effect it causes and the disease that side effect
\* makes more likely
ScenarioC ==
    [nodes |-> << [id |-> "n1", label |-> "Drug", properties |-> [name |-> "Aspirin"]],
                  [id |-> "n2", label |-> "SideEffect",
                   properties |-> [name |-> "StomachBleeding"]],
                  [id |-> "n3", label |-> "Disease",
                   properties |-> [name |-> "PepticUlcer"]] >>,
     edges |-> << [id |-> "r1", source |-> "n1", type |-> "CAUSES", target |-> "n2",
                   properties |-> EmptyDict],
                  [id |-> "r2", source |-> "n2", type |-> "INCREASES_RISK_OF",
                   target |-> "n3", properties |-> EmptyDict] >>]

\* the same with a second drug between the two ends, stored towards the
\* first drug: two shortest paths from Aspirin to PepticUlcer
TwoWays ==
    [nodes |-> ScenarioC.nodes \o
                 << [id |-> "n4", label |-> "Drug", properties |-> [name |-> "Ibuprofen"]] >>,
     edges |-> ScenarioC.edges \o
                 << [id |-> "r3", source |-> "n4", type |-> "INTERACTS_WITH",
                     target |-> "n1", properties |-> EmptyDict],
                    [id |-> "r4", source |-> "n4", type |-> "CAUSES",
                     target |-> "n3", properties |-> EmptyDict] >>]

\* two drugs that cause one side effect, and a side effect of one of them
ScenarioD ==
    [nodes |-> << [id |-> "n1", label |-> "Drug", properties |-> [name |-> "Aspirin"]],
                  [id |-> "n2", label |-> "Drug", properties |-> [name |-> "Ibuprofen"]],
                  [id |-> "n3", label |-> "SideEffect", properties |-> [name |-> "Nausea"]],
                  [id |-> "n4", label |-> "SideEffect", properties |-> [name |-> "Rash"]] >>,
     edges |-> << [id |-> "r1", source |-> "n1", type |-> "CAUSES", target |-> "n3",
                   properties |-> EmptyDict],
                  [id |-> "r2", source |-> "n2", type |-> "CAUSES", target |-> "n3",
                   properties |-> EmptyDict],
                  [id |-> "r3", source |-> "n1", type |-> "CAUSES", target |-> "n4",
                   properties |-> EmptyDict] >>]

\* seven nodes every two of which are joined within six hops, twenty-one
\* pairs; n8 lies between n1 and n2 and on no other shortest path
ManyPairs ==
    [nodes |-> << [id |-> "n1", label |-> "Drug", properties |-> [name |-> "Aspirin"]],
                  [id |-> "n2", label |-> "Drug", properties |-> [name |-> "Ibuprofen"]],
                  [id |-> "n3", label |-> "SideEffect", properties |-> [name |-> "Nausea"]],
                  [id |-> "n4", label |-> "SideEffect", properties |-> [name |-> "Rash"]],
                  [id |-> "n5", label |-> "Disease", properties |-> [name |-> "Headache"]],
                  [id |-> "n6", label |-> "Disease", properties |-> [name |-> "Fever"]],
                  [id |-> "n7", label |-> "Symptom", properties |-> [name |-> "SeverePain"]],
                  [id |-> "n8", label |-> "Gene", properties |-> [name |-> "COX1"]] >>,
     edges |-> << [id |-> "r1", source |-> "n1", type |-> "RELATED_TO", target |-> "n8",
                   properties |-> EmptyDict],
                  [id |-> "r2", source |-> "n8", type |-> "RELATED_TO", target |-> "n2",
                   properties |-> EmptyDict],
                  [id |-> "r3", source |-> "n1", type |-> "RELATED_TO", target |-> "n3",
                   properties |-> EmptyDict],
                  [id |-> "r4", source |-> "n2", type |-> "RELATED_TO", target |-> "n4",
                   properties |-> EmptyDict],
                  [id |-> "r5", source |-> "n3", type |-> "RELATED_TO", target |-> "n4",
                   properties |-> EmptyDict],
                  [id |-> "r6", source |-> "n4", type |-> "RELATED_TO", target |-> "n5",
                   properties |-> EmptyDict],
                  [id |-> "r7", source |-> "n5", type |-> "RELATED_TO", target |-> "n6",
                   properties |-> EmptyDict],
                  [id |-> "r8", source |-> "n6", type |-> "RELATED_TO", target |-> "n7",
                   properties |-> EmptyDict] >>]

TraversalGraphs ==
    {ScenarioA, MixedGraph, ScenarioB, ScenarioC, TwoWays, ScenarioD, ManyPairs}

\* the intents asked of a graph.  Targeted: anchored on the source with
\* labels, on the target by default strategy, on either end; an intent
\* without a registry entry; the chained, the shortest_path and the
\* shared_neighbor entries of the registry.
GraphIntents(g) ==
    CASE g = ScenarioA -> {"side_effects", "treated_by", "interactions", "unknown_intent"}
      [] g = MixedGraph -> {"side_effects", "treated_by", "interactions"}
      [] g = ScenarioB -> {"indirect_symptoms", "drug_risk_chain"}
      [] g \in {ScenarioC, TwoWays} -> {"connection", "connection_default"}
      [] g = ScenarioD -> {"shared_effects", "shared_default", "shared_single",
                           "shared_many"}
      [] g = ManyPairs -> {"connection_default"}

\* the entry lists asked of a graph: every list of up to MaxEntries of its
\* nodes; of ManyPairs the list of its first seven nodes
EntryLists(g) ==
    IF g = ManyPairs
    THEN {[i \in 1..7 |-> EntryOf(g.nodes[i])]}
    ELSE SeqsUpTo({EntryOf(n) : n \in SeqToSet(g.nodes)}, MaxEntries)

GraphTraverseRows ==
    /\ pc = "store"
    /\ op = "traverse"
    /\ \E rows \in StoreAnswers(graph, LastQuery) : TraverseRows(rows)

GraphInit ==
    /\ Constructed(Deployments, {{}})
    /\ args = <<>>
    /\ graph \in TraversalGraphs
    /\ calls = <<>>

GraphNext ==
    \/ \E entry_nodes \in EntryLists(graph), intent \in GraphIntents(graph) :
          TraverseCall(entry_nodes, intent)
    \/ GraphTraverseRows
    \/ Finish

GraphSpec == GraphInit /\ [][GraphNext]_vars

----------------------------------------------------------------------------

(* Candidate generation alone: every query over Alphabet up to MaxQueryLen,*)
(* with and without a caller-supplied stop-word.                           *)

ExtraStopWords == { {}, {<<"B">>} }

KeywordsInit ==
    /\ Constructed(Deployments, ExtraStopWords)
    /\ args \in [query : SeqsUpTo(Alphabet, MaxQueryLen)]
    /\ graph = NoGraph
    /\ calls = <<>>

KeywordsCall ==
    /\ pc = "idle"
    /\ op' = "keywords"
    /\ ret' = Returned(_extract_keywords(args.query, stop_words))
    /\ pc' = "done"
    /\ EngineUnchanged
    /\ UNCHANGED <<args, frame, queries, registry_reads, config_errors>>

KeywordsNext == KeywordsCall

KeywordsSpec == KeywordsInit /\ [][KeywordsNext]_vars


----------------------------------------------------------------------------
(* Properties *)

NodeIdsOf(nodes) == {nodes[i]["id"] : i \in 1..Len(nodes)}

\* a traverse call is running or has just ended
InTraverse == op = "traverse" /\ pc \in {"store", "done"}

TraverseReturned == op = "traverse" /\ pc = "done" /\ ret.status = "returned"

\* a registry entry that lacks a field its declared strategy requires
Malformed(pattern) ==
    LET strategy == PyGet(pattern, "strategy", "targeted")
    IN /\ DOMAIN pattern # {}
       /\ \/ strategy = "targeted" /\ "relationship" \notin DOMAIN pattern
          \/ strategy = "chained" /\ "hops" \notin DOMAIN pattern
          \/ /\ strategy = "chained" /\ "hops" \in DOMAIN pattern
             /\ \E i \in 1..Len(pattern["hops"]) :
                   "relationship" \notin DOMAIN pattern["hops"][i]

MalformedIntent(intent) ==
    intent \in DOMAIN IntentPatterns /\ Malformed(IntentPatterns[intent])

\* the strategy a registry entry declares, "" when the intent has no entry
DeclaredStrategy(intent) ==
    IF intent \in DOMAIN IntentPatterns
    THEN PyGet(IntentPatterns[intent], "strategy", "")
    ELSE ""

\* C1: traverse with an empty entry-node list returns exactly
\* {nodes: [], relationships: [], strategy: "none", hop_depth: 0}, for every
\* intent name, without reading the pattern registry and without issuing a
\* store query.
C1_EmptyEntryReturnsNone ==
    (InTraverse /\ args.entry_nodes = <<>>) =>
        /\ pc = "done"
        /\ ret = [status |-> "returned",
                  value |-> [nodes |-> <<>>, relationships |-> <<>>,
                             strategy |-> "none", hop_depth |-> 0]]
        /\ registry_reads = 0
        /\ queries = <<>>

C1_Witness ==
    /\ TraverseReturned
    /\ args.entry_nodes = <<>>
    /\ args.intent = "bad_chain"

\* C2: in every subgraph traverse returns, under every strategy and for
\* every row list of the store (zero rows included), the id of every entry
\* node supplied is the id of a node of the result.
C2_EntryIdsInResult ==
    TraverseReturned =>
        \A i \in 1..Len(args.entry_nodes) :
            args.entry_nodes[i]["id"] \in NodeIdsOf(ret.value.nodes)

C2_Witness ==
    /\ TraverseReturned
    /\ Len(args.entry_nodes) = 2
    /\ args.intent = "shared_effects"
    /\ frame.rows = <<>>
    /\ NodeIdsOf(ret.value.nodes) = {"n1", "n2"}

\* C3: no two nodes of a returned subgraph have the same id, whatever rows
\* the store returns and also when the entry list repeats an id.
C3_NodeIdsUnique ==
    TraverseReturned =>
        \A i, j \in 1..Len(ret.value.nodes) :
            i # j => ret.value.nodes[i]["id"] # ret.value.nodes[j]["id"]

C3_Witness ==
    /\ TraverseReturned
    /\ Len(args.entry_nodes) = 2
    /\ args.entry_nodes[1]["id"] = args.entry_nodes[2]["id"]
    /\ args.entry_nodes[1] # args.entry_nodes[2]
    /\ Len(frame.rows) = 2
    /\ frame.rows[1] = frame.rows[2]
    /\ PyGet(frame.rows[1], "source_id", NoneVal) = "n1"
    /\ NodeIdsOf(ret.value.nodes) = {"n1", "n3"}
    /\ Len(ret.value.nodes) = 2

\* C4: a non-empty entry list with an intent that is no key of the registry
\* is not an error: the call issues one query, the general one (undirected
\* single hop from all entry ids, no relationship type, LIMIT the configured
\* node limit), and what it returns has strategy "general" and hop_depth 1.
C4_UnknownIntentGeneral ==
    (InTraverse /\ args.entry_nodes # <<>>
        /\ args.intent \notin DOMAIN IntentPatterns) =>
        /\ Len(queries) = 1
        /\ queries[1].query =
              [kind |-> "general", ids |-> Ids(args.entry_nodes),
               directed |-> FALSE, rel |-> "",
               limit |-> PyGet(PyGet(_config, "general_traversal", EmptyDict),
                               "node_limit", 30)]
        /\ (pc = "done" /\ ret.status = "raised") =>
              /\ ret.error \in StoreErrors
              /\ queries[1].outcome = ret.error
        /\ (pc = "done" /\ ret.status = "returned") =>
              /\ ret.value.strategy = "general"
              /\ ret.value.hop_depth = 1

C4_Witness ==
    /\ TraverseReturned
    /\ args.intent = "unknown_intent"
    /\ Len(args.entry_nodes) = 2
    /\ ret.value.strategy = "general"
    /\ queries[1].query.limit = 30

\* C5: with a shortest_path pattern and fewer than two entry ids, traverse
\* issues no shortest-path query; it issues exactly the variable_hop query
\* with min_hops 1 and max_hops the pattern's max_hops (default 6).
C5_ShortestPathDegrades ==
    (InTraverse /\ args.entry_nodes # <<>>
        /\ DeclaredStrategy(args.intent) = "shortest_path"
        /\ Len(args.entry_nodes) < 2) =>
        /\ Len(queries) = 1
        /\ queries[1].query =
              [kind |-> "variable_hop", ids |-> Ids(args.entry_nodes),
               min_hops |-> 1,
               max_hops |-> PyGet(IntentPatterns[args.intent], "max_hops", 6),
               limit |-> 60]

C5_Witness ==
    /\ TraverseReturned
    /\ args.intent = "connection_default"
    /\ Len(args.entry_nodes) = 1
    /\ queries[1].query.kind = "variable_hop"
    /\ queries[1].query.max_hops = 6

\* C6: the shared_neighbor query gets as its threshold the smaller of the
\* configured min_connections (default 2) and the number of entry ids.
C6_MinConnCapped ==
    (InTraverse /\ args.entry_nodes # <<>>
        /\ DeclaredStrategy(args.intent) = "shared_neighbor") =>
        /\ Len(queries) = 1
        /\ queries[1].query.kind = "shared_neighbor"
        /\ LET configured == PyGet(IntentPatterns[args.intent], "min_connections", 2)
               n == Len(args.entry_nodes)
           IN /\ queries[1].query.min_conn <= configured
              /\ queries[1].query.min_conn <= n
              /\ queries[1].query.min_conn \in {configured, n}

C6_Witness ==
    /\ TraverseReturned
    /\ args.intent = "shared_many"
    /\ Len(args.entry_nodes) = 2
    /\ queries[1].query.min_conn = 2


\* C7: a non-empty entry list with an intent whose registry entry lacks a
\* field its strategy requires makes that call fail with an error, without
\* a subgraph and without a store query; no step changes the registry or
\* the node limit; and whatever a traverse call returns, after failed calls
\* too, is what the configuration as loaded yields for its arguments and
\* the rows of the store.
C7_FailsAlone ==
    (InTraverse /\ args.entry_nodes # <<>> /\ MalformedIntent(args.intent)) =>
        /\ pc = "done"
        /\ ret = [status |-> "raised", error |-> "KeyError"]
        /\ queries = <<>>

C7_RegistryKept ==
    /\ _config' = _config
    /\ _intent_patterns' = _intent_patterns
    /\ _general_limit' = _general_limit

C7_LaterCallsUnaffected ==
    (TraverseReturned /\ args.entry_nodes # <<>>) =>
        LET strategy == StrategyOf(IntentPatterns, args.intent)
            fresh == Dispatch(strategy, Ids(args.entry_nodes),
                              PatternOf(IntentPatterns, args.intent),
                              NodeLimitOf(_config))
        IN /\ _intent_patterns = IntentPatterns
           /\ queries[1].query = fresh.query
           /\ ret.value = Tagged(_build_subgraph(frame.rows, args.entry_nodes),
                                 strategy, fresh.hop_depth)

C7_ConfigErrorIsolated ==
    /\ [](C7_FailsAlone /\ C7_LaterCallsUnaffected)
    /\ [][C7_RegistryKept]_vars

C7_Witness ==
    /\ TraverseReturned
    /\ config_errors
    /\ args.intent = "indirect_symptoms"
    /\ Len(args.entry_nodes) = 1
    /\ Len(frame.rows) = 2
    /\ ret.value.strategy = "chained"
    /\ ret.value.hop_depth = 2

\* C8: when a store query of a traverse call or of a resolve call fails,
\* the call ends with that same error and returns no value, also when
\* earlier candidates of the resolve call had matched nodes.
C8_StoreErrorPropagates ==
    \A i \in 1..Len(queries) :
        queries[i].outcome \in StoreErrors =>
            /\ pc = "done"
            /\ ret = [status |-> "raised", error |-> queries[i].outcome]

C8_Witness ==
    /\ op = "resolve"
    /\ pc = "done"
    /\ ret.status = "raised"
    /\ frame.entry_nodes # <<>>
    /\ frame.i = 2

\* C9: no store query is issued again within a call: a traverse call
\* issues at most one query, exactly one when the entry list is non-empty
\* and the pattern well-formed; a resolve call issues each stage lookup of
\* a candidate at most once; one query is in flight at a time and none
\* follows a failed one.
C9_NoReissue ==
    /\ op = "traverse" => Len(queries) <= 1
    /\ (op = "traverse" /\ pc = "done" /\ args.entry_nodes # <<>>
           /\ ~MalformedIntent(args.intent)) => Len(queries) = 1
    /\ op = "resolve" =>
          \A i, j \in 1..Len(queries) :
              i # j => <<queries[i].query.kind, queries[i].for>>
                           # <<queries[j].query.kind, queries[j].for>>
    /\ \A i \in 1..Len(queries) :
          /\ queries[i].outcome \in StoreErrors => i = Len(queries)
          /\ queries[i].outcome = "pending" => (i = Len(queries) /\ pc = "store")

C9_Witness ==
    /\ op = "resolve"
    /\ pc = "done"
    /\ ret.status = "raised"
    /\ Len(queries) = 3
    /\ queries[3].query.kind = "fuzzy"

\* the characters that make a token: letters, digits and the hyphen
TokenChars == Kept \ WhiteSpace

KeywordsDone == op = "keywords" /\ pc = "done"

\* C10 as stated: for any non-empty query string _extract_keywords returns
\* a non-empty candidate list.
C10_NonEmptyForNonEmptyQuery ==
    (KeywordsDone /\ args.query # <<>>) => ret.value # <<>>

\* C10, amended: for any query with at least one letter, digit or hyphen,
\* _extract_keywords returns a non-empty candidate list, even if all tokens
\* are stop-words (the unfiltered tokens are then used).
C10_NonEmptyForQueryWithToken ==
    (KeywordsDone /\ \E i \in 1..Len(args.query) : args.query[i] \in TokenChars) =>
        ret.value # <<>>

C10_Witness ==
    /\ KeywordsDone
    /\ args.query = <<"A", " ", "b">>
    /\ stop_words = { <<"a">>, <<"b">> }
    /\ ret.value = << <<"a", " ", "b">>, <<"a">>, <<"b">> >>

\* the number of tokens of a candidate phrase
PhraseSize(phrase) == Len(Split(phrase))

\* the positions of the token list at which a phrase starts
StartsOf(tokens, phrase) ==
    {i \in 1..(Len(tokens) - PhraseSize(phrase) + 1) :
        Join(tokens, i, PhraseSize(phrase)) = phrase}

FirstStartOf(tokens, phrase) ==
    CHOOSE i \in StartsOf(tokens, phrase) :
        \A j \in StartsOf(tokens, phrase) : i <= j

\* C11: the candidate list holds every phrase of one, two or three
\* consecutive content tokens and nothing else; all candidates of size 3
\* precede all of size 2, which precede all of size 1 (so a trigram
\* precedes every bigram and unigram made of its tokens); within a size
\* the candidates stand in the order of their first occurrence; no
\* candidate string occurs twice.
C11_CandidateOrder ==
    KeywordsDone =>
        LET content_tokens ==
                ContentTokens(Split(Lower(Clean(args.query))), stop_words)
            candidates == ret.value
        IN /\ \A p \in 1..Len(candidates) :
                  /\ PhraseSize(candidates[p]) \in 1..3
                  /\ StartsOf(content_tokens, candidates[p]) # {}
           /\ \A n \in 1..3 : \A i \in 1..(Len(content_tokens) - n + 1) :
                  Join(content_tokens, i, n) \in SeqToSet(candidates)
           /\ \A p, q \in 1..Len(candidates) :
                  p < q =>
                      /\ candidates[p] # candidates[q]
                      /\ \/ PhraseSize(candidates[p]) > PhraseSize(candidates[q])
                         \/ /\ PhraseSize(candidates[p]) = PhraseSize(candidates[q])
                            /\ FirstStartOf(content_tokens, candidates[p])
                                   < FirstStartOf(content_tokens, candidates[q])

\* three tokens of which the first and the last are the same word
C11_Witness ==
    /\ KeywordsDone
    /\ args.query = <<"b", " ", "-", " ", "b">>
    /\ ret.value = << <<"b", " ", "-", " ", "b">>, <<"b", " ", "-">>,
                      <<"-", " ", "b">>, <<"b">>, <<"-">> >>

InResolve == op = "resolve" /\ pc # "idle"

\* C13: for an empty or white-space-only query extract_entry_nodes returns
\* the empty list and issues no store lookup at all.
C13_BlankQueryNoLookup ==
    (InResolve /\ \A i \in 1..Len(args.query) : args.query[i] = " ") =>
        /\ pc = "done"
        /\ ret = Returned(<<>>)
        /\ queries = <<>>

C13_Witness ==
    /\ InResolve
    /\ args.query = <<" ", " ">>
    /\ ret = Returned(<<>>)
    /\ queries = <<>>

\* the resolver's loop has started: its locals exist
Resolving == InResolve /\ frame # <<>>

IsPrefix(s, t) == Len(s) <= Len(t) /\ \A i \in 1..Len(s) : s[i] = t[i]

\* the first position of a node with this id in a node list
FirstWithId(nodes, id) ==
    CHOOSE i \in 1..Len(nodes) :
        /\ nodes[i]["id"] = id
        /\ \A j \in 1..(i - 1) : nodes[j]["id"] # id

\* add is what nodes brings that seen does not hold: the first node of each
\* new id, in the order of nodes
BringsNew(add, nodes, seen) ==
    /\ \A k \in 1..Len(add) :
          /\ add[k]["id"] \notin seen
          /\ \E i \in 1..Len(nodes) : nodes[i]["id"] = add[k]["id"]
          /\ add[k] = nodes[FirstWithId(nodes, add[k]["id"])]
    /\ \A k, l \in 1..Len(add) :
          k < l => FirstWithId(nodes, add[k]["id"]) < FirstWithId(nodes, add[l]["id"])
    /\ \A i \in 1..Len(nodes) :
          nodes[i]["id"] \in seen \cup {add[k]["id"] : k \in 1..Len(add)}

\* no id twice in the list built so far, which is what is returned
C14_UniqueIds ==
    Resolving =>
        /\ \A i, j \in 1..Len(frame.entry_nodes) :
              i # j => frame.entry_nodes[i]["id"] # frame.entry_nodes[j]["id"]
        /\ frame.seen_ids = NodeIdsOf(frame.entry_nodes)
        /\ ret.status = "returned" => ret.value = frame.entry_nodes

\* a step of the call only appends, and appends the new nodes of its lookup
C14_OnlyAppends ==
    (Resolving /\ Resolving') =>
        /\ IsPrefix(frame.entry_nodes, frame'.entry_nodes)
        /\ BringsNew(SubSeq(frame'.entry_nodes, Len(frame.entry_nodes) + 1,
                            Len(frame'.entry_nodes)),
                     frame'.nodes, frame.seen_ids)

\* C14: the node list extract_entry_nodes returns has no duplicate ids; a
\* node's position is fixed by the first candidate whose lookup surfaced
\* it: a node returned again by a later candidate, or twice by the same
\* lookup, is neither repeated nor moved.
C14_FirstSurfacedOrder == []C14_UniqueIds /\ [][C14_OnlyAppends]_vars

\* the last lookup returned twice the node that an earlier candidate put first
C14_Witness ==
    /\ InResolve
    /\ pc = "done"
    /\ ret.status = "returned"
    /\ Len(ret.value) = 2
    /\ Len(queries) >= 2
    /\ Len(frame.nodes) = 2
    /\ frame.nodes[1]["id"] = ret.value[1]["id"]
    /\ frame.nodes[2]["id"] = ret.value[1]["id"]

\* the lookup of the log at position k ended its candidate's search
EndsCandidate(k) ==
    /\ queries[k].outcome = "rows"
    /\ \/ queries[k].count > 0
       \/ queries[k].query.kind = "fuzzy"
       \/ /\ queries[k].query.kind = "partial"
          /\ ~(_fuzzy_available /\ Len(queries[k].for) > 3)

\* the lookup at position k follows, for the same candidate, a lookup of
\* the given stage that returned no rows
FollowsEmpty(k, stage) ==
    /\ k > 1
    /\ queries[k - 1].query.kind = stage
    /\ queries[k - 1].for = queries[k].for
    /\ queries[k - 1].outcome = "rows"
    /\ queries[k - 1].count = 0

\* the last lookup of the log that the store has answered with rows
LastAnswered ==
    IF queries[Len(queries)].outcome = "rows" THEN Len(queries) ELSE Len(queries) - 1

\* C15: for each candidate the stage lookups are issued in the order exact,
\* partial, fuzzy, stopping at the first stage that returns results: the
\* partial lookup only after the exact lookup returned no rows, the fuzzy
\* lookup only after both returned no rows and only if the fuzzy capability
\* is available and the candidate is longer than 3 characters; no stage is
\* skipped; the candidate's result is the result of the stage that ended
\* its search.
C15_StageOrder ==
    (InResolve /\ queries # <<>>) =>
        /\ \A k \in 1..Len(queries) :
              /\ queries[k].query.kind \in {"exact", "partial", "fuzzy"}
              /\ queries[k].query.kind = "exact" => (k > 1 => EndsCandidate(k - 1))
              /\ queries[k].query.kind = "partial" => FollowsEmpty(k, "exact")
              /\ queries[k].query.kind = "fuzzy" =>
                    /\ FollowsEmpty(k, "partial")
                    /\ FollowsEmpty(k - 1, "exact")
                    /\ _fuzzy_available
                    /\ Len(queries[k].for) > 3
              /\ (queries[k].outcome = "rows" /\ ~EndsCandidate(k)) =>
                    /\ k < Len(queries)
                    /\ queries[k + 1].for = queries[k].for
                    /\ queries[k + 1].query.kind =
                          (IF queries[k].query.kind = "exact" THEN "partial" ELSE "fuzzy")
              /\ (EndsCandidate(k) /\ k < Len(queries)) =>
                    /\ queries[k + 1].for # queries[k].for
                    /\ queries[k + 1].query.kind = "exact"
        /\ (LastAnswered > 0 /\ EndsCandidate(LastAnswered)) =>
              /\ Len(frame.rows) = queries[LastAnswered].count
              /\ frame.nodes =
                    (IF queries[LastAnswered].query.kind = "fuzzy"
                     THEN FuzzyNodes(queries[LastAnswered].for, frame.rows)
                     ELSE RowsToNodes(frame.rows))

\* exact and partial found nothing, the fuzzy stage found the node
C15_Witness ==
    /\ InResolve
    /\ pc = "done"
    /\ ret.status = "returned"
    /\ Len(queries) = 3
    /\ queries[1].query.kind = "exact" /\ queries[1].count = 0
    /\ queries[2].query.kind = "partial" /\ queries[2].count = 0
    /\ queries[3].query.kind = "fuzzy" /\ queries[3].count > 0
    /\ ret.value # <<>>

\* a traverse call has returned the subgraph assembled from the rows of its query
Assembled == TraverseReturned /\ args.entry_nodes # <<>>

\* the relationship rel carries the source id, type and target id of row
CarriesRow(rel, row) ==
    /\ rel.source_id = PyGet(row, "source_id", NoneVal)
    /\ rel.target_id = PyGet(row, "target_id", NoneVal)
    /\ rel.type = PyGet(row, "rel_type", "RELATED_TO")

\* C16 as stated: for every list of rows the relationship list of the
\* result has the length of the row list and its i-th relationship carries
\* the source id, type and target id of the i-th row.
C16_OneEdgePerRow ==
    Assembled =>
        /\ Len(ret.value.relationships) = Len(frame.rows)
        /\ \A i \in 1..Len(frame.rows) :
              CarriesRow(ret.value.relationships[i], frame.rows[i])

\* a row that names both ends of its relationship
HasBothIds(row) ==
    /\ PyGet(row, "source_id", NoneVal) \notin {NoneVal, ""}
    /\ PyGet(row, "target_id", NoneVal) \notin {NoneVal, ""}

\* how many of the first i rows name both ends
RankAmongComplete(rows, i) ==
    Cardinality({j \in 1..i : HasBothIds(rows[j])})

\* C16, amended: the assembler appends one edge per row that carries a
\* non-empty source_id and a non-empty target_id, in row order and without
\* de-duplication: the relationship list is as long as the list of such
\* rows, its k-th relationship carries the source id, the type
\* (RELATED_TO when the row has no rel_type) and the target id of the k-th
\* such row, and a triple delivered by two rows yields two relationships.
C16_OneEdgePerCompleteRow ==
    Assembled =>
        /\ Len(ret.value.relationships) = RankAmongComplete(frame.rows, Len(frame.rows))
        /\ \A i \in 1..Len(frame.rows) :
              HasBothIds(frame.rows[i]) =>
                  CarriesRow(ret.value.relationships[RankAmongComplete(frame.rows, i)],
                             frame.rows[i])

\* the same complete row twice gives the same relationship twice
C16_Witness ==
    /\ Assembled
    /\ Len(frame.rows) = 2
    /\ frame.rows[1] = frame.rows[2]
    /\ HasBothIds(frame.rows[1])
    /\ Len(ret.value.relationships) = 2
    /\ ret.value.relationships[1] = ret.value.relationships[2]

StrategyTags ==
    {"none", "general", "targeted", "chained", "variable_hop",
     "shortest_path", "shared_neighbor"}

\* C18: the strategy tag of a returned subgraph is the tag of the algorithm
\* whose query was actually executed ("none" when no query ran), and it is
\* always one of none, general, targeted, chained, variable_hop,
\* shortest_path, shared_neighbor.
C18_TagIsAlgorithmRun ==
    TraverseReturned =>
        /\ ret.value.strategy \in StrategyTags
        /\ queries = <<>> => ret.value.strategy = "none"
        /\ queries # <<>> => ret.value.strategy = queries[1].query.kind

\* C12: resolve is idempotent: for a store whose answers to each lookup
\* are unchanged, a second call of extract_entry_nodes with the same query
\* on the same extractor returns the list the first call returned, the
\* same nodes in the same order; the first call leaves nothing behind in
\* the extractor.
C12_SecondCallSame ==
    (InResolve /\ pc = "done" /\ "first" \in DOMAIN args) =>
        ret = Returned(args.first)

\* the second call has returned a list of two nodes after four lookups
C12_Witness ==
    /\ InResolve
    /\ pc = "done"
    /\ "first" \in DOMAIN args
    /\ Len(args.first) >= 2
    /\ ret = Returned(args.first)
    /\ Len(queries) >= 4

\* what traverse(entry_nodes, intent) gives when it runs alone on the
\* engine as constructed and the store answers its query with rows, or
\* with the error when error is not ""
Alone(entry_nodes, intent, rows, error) ==
    LET strategy == StrategyOf(IntentPatterns, intent)
        r == Dispatch(strategy, Ids(entry_nodes),
                      PatternOf(IntentPatterns, intent), _general_limit)
    IN IF entry_nodes = <<>> THEN Returned(EmptySubgraph)
       ELSE IF r.tag = "raise" THEN Raised(r.error)
       ELSE IF error # "" THEN Raised(error)
       ELSE Returned(Tagged(_build_subgraph(rows, entry_nodes), strategy, r.hop_depth))

\* the call of thread t has ended
Ended(t) == calls[t].pc = "done"

\* the answer the store gave to the call of thread t
RowsGiven(t) ==
    IF calls[t].ret.status = "returned" /\ calls[t].queries # <<>>
    THEN calls[t].frame.rows ELSE <<>>

ErrorGiven(t) ==
    IF calls[t].queries # <<>> /\ calls[t].queries[1].outcome \in StoreErrors
    THEN calls[t].queries[1].outcome ELSE ""

\* C19: concurrent traverse calls on the same engine are safe without
\* locking: in every interleaving of the calls of two or more threads each
\* call returns (or raises) what it would when run alone with the same
\* arguments and the same answer of the store, and the pattern registry is
\* afterwards what it was at construction.
C19_InterleavedAsAlone ==
    (calls # <<>>) =>
        /\ \A t \in Threads :
              Ended(t) =>
                  calls[t].ret = Alone(calls[t].args.entry_nodes, calls[t].args.intent,
                                       RowsGiven(t), ErrorGiven(t))
        /\ _intent_patterns = IntentPatterns
        /\ _config \in {ConfigWithLimit, ConfigWithoutLimit}
        /\ _general_limit = NodeLimitOf(_config)

\* thread 1 got its rows while thread 2 was inside execute_query for
\* another strategy; both have returned, each its own subgraph
C19_Witness ==
    /\ calls # <<>>
    /\ Ended(1) /\ Ended(2)
    /\ calls[1].ret.status = "returned" /\ calls[2].ret.status = "returned"
    /\ calls[1].queries # <<>> /\ calls[2].queries # <<>>
    /\ calls[1].frame.overlapped
    /\ calls[1].ret.value.strategy = "targeted"
    /\ calls[2].ret.value.strategy = "shortest_path"
    /\ calls[1].frame.rows # <<>>
    /\ calls[2].frame.rows = <<>>

\* the intent's registry entry runs the targeted strategy
TargetedIntent(intent) ==
    /\ intent \in DOMAIN IntentPatterns
    /\ IntentPatterns[intent] # EmptyDict
    /\ PyGet(IntentPatterns[intent], "strategy", "targeted") = "targeted"
    /\ "relationship" \in DOMAIN IntentPatterns[intent]

\* C20: under the targeted strategy every relationship of the result has
\* the configured relationship type and an entry id on the anchored side
\* (the source for anchor=source, the target for anchor=target, one of the
\* two for anchor=either); the result is tagged "targeted" with hop_depth
\* 1.  For the graph Aspirin-CAUSES->Nausea, Aspirin-CAUSES->StomachBleeding,
\* the entry list [Aspirin] and the pattern (CAUSES, Drug->SideEffect,
\* anchor=source) the result has the nodes Aspirin, Nausea and
\* StomachBleeding and the two CAUSES relationships.
C20_TargetedAnchored ==
    (Assembled /\ TargetedIntent(args.intent)) =>
        LET pattern == IntentPatterns[args.intent]
            anchor == PyGet(pattern, "entry_anchor", "source")
            ids == NodeIdsOf(args.entry_nodes)
            rels == ret.value.relationships
        IN /\ ret.value.strategy = "targeted"
           /\ ret.value.hop_depth = 1
           /\ \A k \in 1..Len(rels) :
                 /\ rels[k].type = pattern["relationship"]
                 /\ anchor = "source" => rels[k].source_id \in ids
                 /\ anchor = "target" => rels[k].target_id \in ids
                 /\ anchor = "either" =>
                       (rels[k].source_id \in ids \/ rels[k].target_id \in ids)
           /\ (graph = ScenarioA /\ args.intent = "side_effects"
                  /\ Ids(args.entry_nodes) = <<"n1">>) =>
                 /\ Len(ret.value.nodes) = 3
                 /\ NodeIdsOf(ret.value.nodes) = {"n1", "n2", "n3"}
                 /\ ret.value.nodes[1].name = "Aspirin"
                 /\ Len(rels) = 2
                 /\ {<<rels[k].source_id, rels[k].type, rels[k].target_id>> :
                         k \in 1..Len(rels)}
                       = {<<"n1", "CAUSES", "n2">>, <<"n1", "CAUSES", "n3">>}

\* the scenario itself
C20_Witness ==
    /\ Assembled
    /\ graph = ScenarioA
    /\ args.intent = "side_effects"
    /\ Ids(args.entry_nodes) = <<"n1">>
    /\ {ret.value.nodes[i].name : i \in 1..Len(ret.value.nodes)}
          = {"Aspirin", "Nausea", "StomachBleeding"}
    /\ Len(ret.value.relationships) = 2
    /\ ret.value.strategy = "targeted"
    /\ ret.value.hop_depth = 1

\* the hop depth the registry entry of an intent fixes
ConfiguredDepth(intent) ==
    LET pattern == PatternOf(IntentPatterns, intent)
        strategy == PyGet(pattern, "strategy", "targeted")
    IN IF pattern = EmptyDict THEN 1
       ELSE CASE strategy = "chained" -> Len(pattern["hops"])
              [] strategy = "variable_hop" -> PyGet(pattern, "max_hops", 2)
              [] strategy = "shortest_path" -> PyGet(pattern, "max_hops", 6)
              [] OTHER -> 1

\* C25: the hop_depth of a returned subgraph is a function of the
\* configuration only, never of the rows: 1 for targeted, shared_neighbor
\* and general, the number of configured hops for chained, max_hops for
\* variable_hop, and max_hops for shortest_path both when the
\* shortest-path query ran and when the call degraded to variable_hop.
C25_DepthFromConfig ==
    Assembled => ret.value.hop_depth = ConfiguredDepth(args.intent)

\* a shortest_path call with one entry node, degraded, that got a row
C25_Witness ==
    /\ Assembled
    /\ args.intent = "connection"
    /\ Len(args.entry_nodes) = 1
    /\ queries[1].query.kind = "variable_hop"
    /\ Len(frame.rows) = 1
    /\ ret.value.hop_depth = 4

\* the two sides of the rows in the order the assembler meets them, as
\* the nodes it would build of them
RowSides(rows) ==
    [j \in 1..(2 * Len(rows)) |->
        RowNode(rows[(j + 1) \div 2], IF j % 2 = 1 THEN "source" ELSE "target")]

\* how many distinct ids a node list holds
DistinctIds(nodes) == Cardinality(NodeIdsOf(nodes))

\* C26: the node list of a returned subgraph starts with the distinct
\* entry nodes in the order supplied, followed by the other nodes in the
\* order of their first appearance in the rows, source before target
\* within a row; the node with an entry node's id is the record the
\* caller supplied (the first of that id), whatever label or properties
\* the rows carry for it.
C26_EntryFirstThenRows ==
    Assembled =>
        LET nodes == ret.value.nodes
            k == DistinctIds(args.entry_nodes)
        IN /\ Len(nodes) >= k
           /\ BringsNew(SubSeq(nodes, 1, k), args.entry_nodes, {})
           /\ BringsNew(SubSeq(nodes, k + 1, Len(nodes)), RowSides(frame.rows),
                        NodeIdsOf(args.entry_nodes) \cup {NoneVal, ""})

\* the entry node n1 is kept as supplied although a row carries n1 with
\* another label and other properties; the row's other end follows it
C26_Witness ==
    /\ Assembled
    /\ Len(args.entry_nodes) = 1
    /\ args.entry_nodes[1].label = "Medicine"
    /\ Len(frame.rows) = 2
    /\ PyGet(frame.rows[1], "source_id", "") = "n1"
    /\ PyGet(frame.rows[1], "source_label", "") = "Drug"
    /\ ret.value.nodes[1] = args.entry_nodes[1]
    /\ Len(ret.value.nodes) = 3

\* C27: every relationship of a returned subgraph refers only to nodes of
\* that subgraph: for every list of rows, also with rows that lack a
\* source_id or a target_id or carry an empty one, the source_id and the
\* target_id of each relationship are ids of nodes of the node list.
C27_EndsAreNodes ==
    Assembled =>
        \A k \in 1..Len(ret.value.relationships) :
            /\ ret.value.relationships[k].source_id \in NodeIdsOf(ret.value.nodes)
            /\ ret.value.relationships[k].target_id \in NodeIdsOf(ret.value.nodes)

\* a row without a target id next to a complete row
C27_Witness ==
    /\ Assembled
    /\ Len(frame.rows) = 2
    /\ ~HasBothIds(frame.rows[1])
    /\ HasBothIds(frame.rows[2])
    /\ Len(ret.value.relationships) = 1
    /\ ret.value.relationships[1].target_id \in NodeIdsOf(ret.value.nodes)
    /\ ret.value.relationships[1].target_id \notin NodeIdsOf(args.entry_nodes)

\* the stored relationships a targeted pattern with the anchor on either
\* end is about: of the configured type, with an entry node at an end, the
\* ends carrying the configured labels
StoredOfPattern(g, pattern, ids) ==
    {e \in SeqToSet(g.edges) :
        /\ e.type = pattern["relationship"]
        /\ e.source \in ids \/ e.target \in ids
        /\ "source_label" \in DOMAIN pattern =>
              NodeById(g, e.source).label = pattern["source_label"]
        /\ "target_label" \in DOMAIN pattern =>
              NodeById(g, e.target).label = pattern["target_label"]}

\* the relationships of a list that link the two ends of the stored
\* relationship e, in either direction, with its type and properties
RelsOfStored(rels, e) ==
    {k \in 1..Len(rels) :
        /\ {rels[k].source_id, rels[k].target_id} = {e.source, e.target}
        /\ rels[k].type = e.type
        /\ rels[k].properties = e.properties}

\* C28: under the targeted strategy with anchor=either, when the row cap
\* is not reached, each stored relationship of the configured type that
\* has an entry node as an endpoint (and satisfies the label filters)
\* contributes exactly one relationship to the result.
C28_OnePerStoredRelationship ==
    (Assembled /\ TargetedIntent(args.intent)
        /\ PyGet(IntentPatterns[args.intent], "entry_anchor", "source") = "either"
        /\ Len(frame.rows) < queries[1].query.limit) =>
        \A e \in StoredOfPattern(graph, IntentPatterns[args.intent],
                                 NodeIdsOf(args.entry_nodes)) :
            Cardinality(RelsOfStored(ret.value.relationships, e)) = 1

\* C29: every relationship of a result keeps the direction of the stored
\* relationship: under every strategy, if the result holds a relationship
\* with source_id s, type t and target_id g, the graph holds a
\* relationship of type t directed from s to g.
C29_StoredDirection ==
    Assembled =>
        \A k \in 1..Len(ret.value.relationships) :
            \E e \in SeqToSet(graph.edges) :
                /\ e.source = ret.value.relationships[k].source_id
                /\ e.type = ret.value.relationships[k].type
                /\ e.target = ret.value.relationships[k].target_id

\* the label of the stored node with an id
LabelOf(g, id) == NodeById(g, id).label

\* the chains of stored relationships a chained registry entry describes:
\* as many as it has hops, each leaving the node the one before reaches,
\* the first leaving an entry node (of the entry label when there is one),
\* the i-th of the type of the i-th hop and reaching a node of its label
ChainsOf(g, pattern, ids) ==
    LET hops == pattern["hops"]
        n == Len(hops)
    IN {c \in [1..n -> SeqToSet(g.edges)] :
          /\ c[1].source \in ids
          /\ "entry_label" \in DOMAIN pattern =>
                LabelOf(g, c[1].source) = pattern["entry_label"]
          /\ \A i \in 1..n :
                /\ c[i].type = hops[i]["relationship"]
                /\ "target_label" \in DOMAIN hops[i] =>
                      LabelOf(g, c[i].target) = hops[i]["target_label"]
          /\ \A i \in 1..(n - 1) : c[i].target = c[i + 1].source}

\* source, type and target of the relationships of a list
Triples(rels) ==
    {<<rels[k].source_id, rels[k].type, rels[k].target_id>> : k \in 1..Len(rels)}

ChainedIntent(intent) ==
    DeclaredStrategy(intent) = "chained" /\ ~MalformedIntent(intent)

\* C21: the chained strategy with n hops matches only directed paths of
\* exactly n edges that start at an entry node (of the entry label when one
\* is configured), the i-th edge of the i-th configured type and leading
\* to a node of the i-th configured target label; each matched path is
\* unrolled into its n edges, so the relationships of the result are the
\* edges of these paths and every intermediate and end node of every path
\* is a node of the result; hop_depth is n.  (Below the cap of 100 paths.)
C21_ChainedPaths ==
    (Assembled /\ ChainedIntent(args.intent)) =>
        LET pattern == IntentPatterns[args.intent]
            n == Len(pattern["hops"])
            chains == ChainsOf(graph, pattern, NodeIdsOf(args.entry_nodes))
        IN /\ Triples(ret.value.relationships)
                = {<<c[i].source, c[i].type, c[i].target>> :
                      <<c, i>> \in chains \X (1..n)}
           /\ NodeIdsOf(ret.value.nodes)
                = NodeIdsOf(args.entry_nodes)
                    \cup {c[i].target : <<c, i>> \in chains \X (1..n)}
           /\ ret.value.hop_depth = n

\* Aspirin-TREATS->Headache-HAS_SYMPTOM->SeverePain from [Aspirin]: the
\* three nodes, two relationships, hop_depth 2; Fever, which Aspirin
\* treats too, ends no path and is left out
C21_Witness ==
    /\ Assembled
    /\ graph = ScenarioB
    /\ args.intent = "indirect_symptoms"
    /\ Ids(args.entry_nodes) = <<"n1">>
    /\ {ret.value.nodes[i].name : i \in 1..Len(ret.value.nodes)}
          = {"Aspirin", "Headache", "SeverePain"}
    /\ Triples(ret.value.relationships)
          = {<<"n1", "TREATS", "n2">>, <<"n2", "HAS_SYMPTOM", "n3">>}
    /\ ret.value.hop_depth = 2

\* two stored nodes with a relationship between them, in either direction
Adjacent(g, x, y) ==
    \E e \in SeqToSet(g.edges) : {e.source, e.target} = {x, y} /\ x # y

\* the routes of at most k relationships that leave a: sequences of
\* stored nodes, no node twice, each adjacent to the next
RECURSIVE RoutesFrom(_, _, _)
RoutesFrom(g, a, k) ==
    IF k = 0 THEN {<<a>>}
    ELSE LET shorter == RoutesFrom(g, a, k - 1)
             ids == {g.nodes[i].id : i \in 1..Len(g.nodes)}
         IN shorter \cup
            {x[1] \o <<x[2]>> :
               x \in {y \in shorter \X ids :
                        /\ Adjacent(g, y[1][Len(y[1])], y[2])
                        /\ \A i \in 1..Len(y[1]) : y[1][i] # y[2]}}

\* the shortest of the routes of at most k relationships from a to b
ShortestRoutes(g, a, b, k) ==
    LET joining == {s \in RoutesFrom(g, a, Min(k, Len(g.nodes) - 1)) : s[Len(s)] = b}
    IN {s \in joining : \A t \in joining : Len(s) <= Len(t)}

\* the shortest-path query ran
ShortestPathRan ==
    /\ Assembled
    /\ DeclaredStrategy(args.intent) = "shortest_path"
    /\ Len(args.entry_nodes) >= 2

\* each unordered pair of distinct entry ids is taken once, and for each
\* pair joined within max_hops the nodes of a shortest route are nodes of
\* the result
PairsOnceAndJoined ==
    LET ids == NodeIdsOf(args.entry_nodes)
        max_h == PyGet(IntentPatterns[args.intent], "max_hops", 6)
        pairs == EntryPairs(graph, queries[1].query)
    IN /\ queries[1].query.kind = "shortest_path"
       /\ \A a, b \in ids :
             /\ a = b => <<a, b>> \notin pairs
             /\ a # b => (<<a, b>> \in pairs) # (<<b, a>> \in pairs)
             /\ (a # b /\ ShortestRoutes(graph, a, b, max_h) # {}) =>
                   \E s \in ShortestRoutes(graph, a, b, max_h) :
                      \A i \in 1..Len(s) : s[i] \in NodeIdsOf(ret.value.nodes)

\* the pairs of distinct entry ids joined within max_hops
JoinedPairs ==
    LET ids == NodeIdsOf(args.entry_nodes)
        max_h == PyGet(IntentPatterns[args.intent], "max_hops", 6)
    IN {{a, b} : <<a, b>> \in {p \in ids \X ids :
                    p[1] # p[2] /\ ShortestRoutes(graph, p[1], p[2], max_h) # {}}}

\* C22 as stated: under the shortest_path strategy with two or more entry
\* ids each unordered pair of distinct entry ids is considered exactly
\* once (never an id with itself, never both orders), and for a pair
\* connected by an undirected path of at most max_hops edges every node
\* of one shortest connecting path, the intermediate nodes included, is a
\* node of the result.
C22_PairsOnceAndJoined ==
    ShortestPathRan => PairsOnceAndJoined

\* C22, amended: the same while at most 20 pairs are connected, the cap
\* of the query on the number of paths.
C22_PairsOnceAndJoinedBelowCap ==
    (ShortestPathRan /\ Cardinality(JoinedPairs) <= 20) => PairsOnceAndJoined

\* [Aspirin, PepticUlcer] over Aspirin-CAUSES->StomachBleeding
\* -INCREASES_RISK_OF->PepticUlcer: StomachBleeding is in the result
C22_Witness ==
    /\ ShortestPathRan
    /\ graph = ScenarioC
    /\ args.intent = "connection_default"
    /\ Ids(args.entry_nodes) = <<"n1", "n3">>
    /\ EntryPairs(graph, queries[1].query) = {<<"n1", "n3">>}
    /\ {ret.value.nodes[i].name : i \in 1..Len(ret.value.nodes)}
          = {"Aspirin", "PepticUlcer", "StomachBleeding"}
    /\ Len(ret.value.relationships) = 2

SharedNeighborRan ==
    Assembled /\ DeclaredStrategy(args.intent) = "shared_neighbor"

\* the entry nodes a stored node is adjacent to
EntriesAt(g, ids, n) == {a \in ids : Adjacent(g, a, n)}

\* the nodes adjacent to at least threshold distinct entry nodes
SharedNeighbors(g, ids, threshold) ==
    {n \in {g.nodes[i].id : i \in 1..Len(g.nodes)} :
        EntriesAt(g, ids, n) # {} /\ Cardinality(EntriesAt(g, ids, n)) >= threshold}

\* the stored relationships between an entry node and a shared neighbor
LinksToShared(g, ids, threshold) ==
    {e \in SeqToSet(g.edges) :
        \/ e.source \in ids /\ e.target \in SharedNeighbors(g, ids, threshold)
        \/ e.target \in ids /\ e.source \in SharedNeighbors(g, ids, threshold)}

\* C23: under the shared_neighbor strategy a node is a shared neighbor
\* exactly when it is adjacent (any type, any direction) to at least the
\* effective threshold number of distinct entry nodes, and the
\* relationships of the result are exactly the edges that link an entry
\* node to a shared neighbor, one relationship for each such edge.
C23_LinksToSharedNeighbors ==
    SharedNeighborRan =>
        LET links == LinksToShared(graph, NodeIdsOf(args.entry_nodes),
                                   queries[1].query.min_conn)
        IN /\ Triples(ret.value.relationships)
                = {<<e.source, e.type, e.target>> : e \in links}
           /\ Len(ret.value.relationships) = Cardinality(links)

\* C30: under the shared_neighbor strategy the effective threshold never
\* exceeds the number of distinct entry ids supplied, so a node adjacent
\* to every distinct entry node is a shared neighbor and is in the
\* result, also when the entry list holds the same id more than once.
C30_ThresholdWithinDistinctIds ==
    SharedNeighborRan =>
        LET ids == NodeIdsOf(args.entry_nodes)
        IN /\ queries[1].query.min_conn <= Cardinality(ids)
           /\ \A i \in 1..Len(graph.nodes) :
                 EntriesAt(graph, ids, graph.nodes[i].id) = ids
                    => graph.nodes[i].id \in NodeIdsOf(ret.value.nodes)

\* the relationships one kept row or path of a query can bring
EdgesPerKept(q) ==
    CASE q.kind = "chained" -> Len(q.hops)
      [] q.kind \in {"variable_hop", "shortest_path"} -> q.max_hops
      [] OTHER -> 1

\* C24: the subgraph traverse returns is bounded: under every strategy
\* the query carries a cap on its rows or paths (50 rows for targeted, 100
\* paths for chained, 60 paths for variable_hop, 20 paths for
\* shortest_path, node_limit rows for general) and the number of
\* relationships of the result is at most what the capped rows or paths
\* can bring, whatever the size of the graph.
C24_BoundedByRowCap ==
    Assembled =>
        LET q == queries[1].query
        IN /\ "limit" \in DOMAIN q
           /\ q.limit \in {50, 100, 60, 20, _general_limit}
           /\ Len(ret.value.relationships) <= q.limit * EdgesPerKept(q)


====
